---- MODULE Spec2Model ----
(***************************************************************************)
(* Layered configuration engine of color-scheme-generator                  *)
(* (packages/settings/src/color_scheme_settings).                          *)
(*                                                                         *)
(* A Python string is a sequence of atoms (short character groups), so     *)
(* that split(".") , lower() and f"{prefix}.{key}" are computed, not       *)
(* assumed.  A Python value is a tagged record [t, v]:                     *)
(*   "str"  v = the string          "num"  v = the number (in tenths)      *)
(*   "null" v = 0  (None)           "list" v = sequence of values          *)
(*   "dict" v = sequence of <<key, value>> items in insertion order, as a   *)
(*          Python dict keeps them (keys unique)                           *)
(* A dict[str, Any] handed to a function is the bare item sequence (the v  *)
(* of a "dict" value).                                                     *)
(***************************************************************************)
EXTENDS Integers, Sequences, FiniteSets, TLC

VARIABLES
    base,       \* deep_merge: first argument
    override,   \* deep_merge: second argument
    heap,       \* deep_merge on objects: the dict objects alive, by address
    srcs,       \* _apply_precedence: its five arguments
    environ,    \* os.environ: sequence of <<name, value>> in enumeration order
    project_settings,   \* ./settings.toml as the resolver finds it
    user_settings,      \* ~/.config/color-scheme/settings.toml as the resolver finds it
    package_settings,   \* what the package's own settings.toml sets
    warnings,   \* ConfigResolver.warnings
    args,       \* apply_overrides, build_unified_config: the arguments of the call
    _entries,   \* SchemaRegistry._entries: the entries in registration order
    files,      \* the settings files the loader may find, by path
    _config,    \* color_scheme_settings._config: the cached unified config or None
    _unified_model,   \* color_scheme_settings._unified_model
    _loader_kwargs,   \* color_scheme_settings._loader_kwargs
    ret         \* what the last call returned or raised; NoRet when nothing was called

mergeVars == <<base, override, heap>>
resolverVars == <<environ, project_settings, user_settings, package_settings, warnings>>
moduleVars == <<_config, _unified_model, _loader_kwargs>>
settingsVars == <<args, _entries, files, moduleVars>>
vars == <<base, override, heap, srcs, environ, project_settings, user_settings,
          package_settings, warnings, args, _entries, files, _config,
          _unified_model, _loader_kwargs, ret>>

----------------------------------------------------------------------------
(* Values *)

Str(s) == [t |-> "str", v |-> s]
Num(n) == [t |-> "num", v |-> n]
Lst(l) == [t |-> "list", v |-> l]
Dict(m) == [t |-> "dict", v |-> m]
None == [t |-> "null", v |-> 0]
S(a) == <<a>>
EmptyDict == <<>>

(* dict operations: {k: x}, d.keys(), k in d, d[k], d[k] = x *)
KV(k, x) == <<<<k, x>>>>
Keys(d) == {d[i][1] : i \in 1..Len(d)}
Has(d, k) == \E i \in 1..Len(d) : d[i][1] = k
Get(d, k) == d[CHOOSE i \in 1..Len(d) : d[i][1] = k][2]
put(d, k, x) ==
    IF Has(d, k)
    THEN [i \in 1..Len(d) |-> IF d[i][1] = k THEN <<k, x>> ELSE d[i]]
    ELSE Append(d, <<k, x>>)
isinstance_dict(x) == x.t = "dict"
is_not_None(x) == x.t # "null"

NoRet == [op |-> "none"]

(* a local name: `value` is computed once and Then sees the result *)
Bind(value, Then(_)) == CHOOSE y \in {Then(x) : x \in {value}} : TRUE

(* str.split(sep): the pieces of s between the occurrences of sep *)
RECURSIVE split(_, _)
split(s, sep) ==
    IF \A i \in 1..Len(s) : s[i] # sep
    THEN <<s>>
    ELSE LET i == CHOOSE j \in 1..Len(s) :
                      s[j] = sep /\ \A h \in 1..(j - 1) : s[h] # sep
         IN  <<SubSeq(s, 1, i - 1)>> \o split(SubSeq(s, i + 1, Len(s)), sep)

(* str.replace(old, new) for a one-atom old *)
replace(s, old, new) == [i \in 1..Len(s) |-> IF s[i] = old THEN new ELSE s[i]]

LowerAtom(a) ==
    CASE a = "GENERATION" -> "generation"
      [] a = "SATURATION" -> "saturation"
      [] a = "BACKEND" -> "backend"
      [] a = "TEMPLATES" -> "templates"
      [] a = "DIRECTORY" -> "directory"
      [] a = "Generation" -> "generation"
      [] a = "$HOME" -> "$home"
      [] OTHER -> a

UpperAtom(a) ==
    CASE a = "generation" -> "GENERATION"
      [] a = "saturation" -> "SATURATION"
      [] a = "backend" -> "BACKEND"
      [] a = "templates" -> "TEMPLATES"
      [] a = "directory" -> "DIRECTORY"
      [] a = "Generation" -> "GENERATION"
      [] a = "core" -> "CORE"
      [] OTHER -> a

lower(s) == [i \in 1..Len(s) |-> LowerAtom(s[i])]
upper(s) == [i \in 1..Len(s) |-> UpperAtom(s[i])]

----------------------------------------------------------------------------
(* merger.py *)

RECURSIVE deep_merge(_, _)
RECURSIVE merge_items(_, _)
RECURSIVE merge_items_shallow(_, _)

(* the loop over override.items(), `result` being the copy of base so far *)
merge_items(result, items) ==
    IF items = <<>> THEN result
    ELSE LET key == Head(items)[1]
             value == Head(items)[2]
         IN  merge_items(
                 IF Has(result, key) /\ isinstance_dict(Get(result, key))
                                     /\ isinstance_dict(value)
                 THEN put(result, key, Dict(deep_merge(Get(result, key).v, value.v)))
                 ELSE put(result, key, value),
                 Tail(items))

merge_items_shallow(result, items) ==
    IF items = <<>> THEN result
    ELSE merge_items_shallow(put(result, Head(items)[1], Head(items)[2]), Tail(items))

deep_merge_shallow(b, o) == merge_items_shallow(b, o)

(* a merge that extends a list of base by the list of override *)
RECURSIVE merge_items_extending(_, _)
merge_items_extending(result, items) ==
    IF items = <<>> THEN result
    ELSE LET key == Head(items)[1]
             value == Head(items)[2]
         IN  merge_items_extending(
                 IF ~Has(result, key) THEN put(result, key, value)
                 ELSE IF isinstance_dict(Get(result, key)) /\ isinstance_dict(value)
                 THEN put(result, key,
                          Dict(merge_items_extending(Get(result, key).v, value.v)))
                 ELSE IF Get(result, key).t = "list" /\ value.t = "list"
                 THEN put(result, key, Lst(Get(result, key).v \o value.v))
                 ELSE put(result, key, value),
                 Tail(items))

deep_merge_extending(b, o) == merge_items_extending(b, o)

deep_merge(b, o) == merge_items(b, o)

----------------------------------------------------------------------------
(* Raw trees handed to deep_merge: sections and keys of the settings files *)

MergeLeaves ==
    { Num(10), Str(S("pywal")),
      Lst(<<Str(S("json")), Str(S("css"))>>), Lst(<<Str(S("json"))>>) }

FlatTrees ==
    { EmptyDict,
      KV(S("formats"), Lst(<<Str(S("json")), Str(S("css"))>>)),
      KV(S("formats"), Lst(<<Str(S("json"))>>)),
      KV(S("formats"), Num(10)),
      KV(S("backend"), Str(S("pywal"))),
      KV(S("backend"), Str(S("pywal"))) \o KV(S("formats"), Lst(<<Str(S("json"))>>)) }

OptionalValues(vals) == {<<>>} \cup {<<x>> : x \in vals}

RawTrees ==
    { (IF a = <<>> THEN <<>> ELSE KV(S("output"), a[1]))
          \o (IF c = <<>> THEN <<>> ELSE KV(S("formats"), c[1])) :
      a \in OptionalValues({Dict(f) : f \in FlatTrees} \cup {Num(10)}),
      c \in OptionalValues(MergeLeaves) }

NoSources == <<>>
PrecedenceIdle == srcs = NoSources
Missing == [state |-> "missing", data |-> EmptyDict]
Malformed == [state |-> "malformed", data |-> EmptyDict]
Parsed(tree) == [state |-> "ok", data |-> tree]
ResolverIdle ==
    /\ environ = <<>>
    /\ project_settings = Missing
    /\ user_settings = Missing
    /\ package_settings = EmptyDict
    /\ warnings = <<>>
MergeIdle == base = EmptyDict /\ override = EmptyDict /\ heap = <<>>
NoArgs == <<>>
NoFiles == <<>>
SettingsIdle ==
    /\ args = NoArgs
    /\ _entries = <<>>
    /\ files = NoFiles
    /\ _config = None
    /\ _unified_model = None
    /\ _loader_kwargs = EmptyDict

MergeInit ==
    /\ base \in RawTrees
    /\ override \in RawTrees
    /\ heap = <<>>
    /\ ret = NoRet
    /\ PrecedenceIdle
    /\ ResolverIdle
    /\ SettingsIdle

DeepMergeCall ==
    /\ ret' = [op |-> "deep_merge", val |-> deep_merge(base, override)]
    /\ UNCHANGED <<settingsVars, mergeVars, srcs, resolverVars>>

MergeNext == DeepMergeCall

SpecMerge == MergeInit /\ [][MergeNext]_vars

----------------------------------------------------------------------------
(* Claims about merger.py *)

RECURSIVE MergeRule(_, _, _)
MergeRule(r, b, o) ==
    /\ Keys(r) = Keys(b) \cup Keys(o)
    /\ Len(r) = Cardinality(Keys(r))
    /\ \A k \in Keys(r) :
         IF k \notin Keys(o) THEN Get(r, k) = Get(b, k)
         ELSE IF k \notin Keys(b) THEN Get(r, k) = Get(o, k)
         ELSE IF Get(b, k).t = "dict" /\ Get(o, k).t = "dict"
              THEN Get(r, k).t = "dict" /\ MergeRule(Get(r, k).v, Get(b, k).v, Get(o, k).v)
              ELSE Get(r, k) = Get(o, k)

\* C3: deep_merge(base, override) has every key of either tree; a key only in
\* base keeps base's value, a key only in override takes override's, a key in
\* both holds the recursive merge when both values are mappings and the
\* override value otherwise (a list is replaced wholesale).
C3_DeepMergeRule ==
    ret.op = "deep_merge" => MergeRule(ret.val, base, override)

\* C3 witness: a merge in which a section is merged recursively (a key of the
\* base section survives next to a key only the override section has) and a
\* list is replaced by a different list.
C3_Witness ==
    /\ ret.op = "deep_merge"
    /\ Has(base, S("output")) /\ Has(override, S("output"))
    /\ Get(base, S("output")).t = "dict" /\ Get(override, S("output")).t = "dict"
    /\ Keys(Get(base, S("output")).v) = {S("backend")}
    /\ Keys(Get(override, S("output")).v) = {S("formats")}
    /\ Keys(Get(ret.val, S("output")).v) = {S("backend"), S("formats")}
    /\ Has(base, S("formats")) /\ Has(override, S("formats"))
    /\ Get(base, S("formats")) = Lst(<<Str(S("json")), Str(S("css"))>>)
    /\ Get(override, S("formats")) = Lst(<<Str(S("json"))>>)
    /\ Get(ret.val, S("formats")) = Lst(<<Str(S("json"))>>)

----------------------------------------------------------------------------
(* models.py: ConfigSource, ResolvedValue *)

ConfigSource == <<"CLI", "ENV", "USER_CONFIG", "PROJECT_CONFIG", "PACKAGE_DEFAULT">>

ResolvedValue(value, source, source_detail, overrides) ==
    [value |-> value, source |-> source, source_detail |-> source_detail,
     overrides |-> overrides]

----------------------------------------------------------------------------
(* resolver.py: ConfigResolver._collect_keys, _get_value, _resolve_setting,
   _apply_precedence *)

Dot == "."

RECURSIVE collect_keys(_, _)
collect_keys(config, prefix) ==
    UNION { LET full_key == IF prefix # <<>> THEN prefix \o <<Dot>> \o key ELSE key
            IN  IF isinstance_dict(Get(config, key))
                THEN collect_keys(Get(config, key).v, full_key)
                ELSE {full_key}
            : key \in Keys(config) }

RECURSIVE walk(_, _)
walk(current, parts) ==
    IF parts = <<>> THEN current
    ELSE IF isinstance_dict(current) /\ Has(current.v, Head(parts))
         THEN walk(Get(current.v, Head(parts)), Tail(parts))
         ELSE None

get_value(config, key) ==
    LET current == walk(Dict(config), split(key, Dot))
    IN  IF current # Dict(EmptyDict) THEN current ELSE None

OverridesOf(pairs) == SelectSeq(pairs, LAMBDA p : is_not_None(p[2]))

resolve_setting_reversed(key, package_name, cli_value, env_value, user_value, project_value, default_value) ==
    IF is_not_None(cli_value)
    THEN ResolvedValue(cli_value, "CLI", <<"--">> \o replace(key, "_", "-"),
             OverridesOf(<<
                 <<"PACKAGE_DEFAULT", default_value>>, <<"PROJECT_CONFIG", project_value>>,
                 <<"USER_CONFIG", user_value>>, <<"ENV", env_value>> >>))
    ELSE IF is_not_None(env_value)
    THEN ResolvedValue(env_value, "ENV",
             <<"COLORSCHEME_">> \o replace(upper(key), Dot, "__"),
             OverridesOf(<<
                 <<"PACKAGE_DEFAULT", default_value>>, <<"PROJECT_CONFIG", project_value>>,
                 <<"USER_CONFIG", user_value>> >>))
    ELSE IF is_not_None(user_value)
    THEN ResolvedValue(user_value, "USER_CONFIG",
             <<"~/.config/">> \o package_name \o <<"/settings.toml">>,
             OverridesOf(<<
                 <<"PACKAGE_DEFAULT", default_value>>,
                 <<"PROJECT_CONFIG", project_value>> >>))
    ELSE IF is_not_None(project_value)
    THEN ResolvedValue(project_value, "PROJECT_CONFIG", <<"./settings.toml">>,
             OverridesOf(<< <<"PACKAGE_DEFAULT", default_value>> >>))
    ELSE ResolvedValue(default_value, "PACKAGE_DEFAULT",
             <<"Package built-in default">>, <<>>)

resolve_setting(key, package_name, cli_value, env_value, user_value, project_value, default_value) ==
    IF is_not_None(cli_value)
    THEN ResolvedValue(cli_value, "CLI", <<"--">> \o replace(key, "_", "-"),
             OverridesOf(<<
                 <<"ENV", env_value>>, <<"USER_CONFIG", user_value>>,
                 <<"PROJECT_CONFIG", project_value>>,
                 <<"PACKAGE_DEFAULT", default_value>> >>))
    ELSE IF is_not_None(env_value)
    THEN ResolvedValue(env_value, "ENV",
             <<"COLORSCHEME_">> \o replace(upper(key), Dot, "__"),
             OverridesOf(<<
                 <<"USER_CONFIG", user_value>>, <<"PROJECT_CONFIG", project_value>>,
                 <<"PACKAGE_DEFAULT", default_value>> >>))
    ELSE IF is_not_None(user_value)
    THEN ResolvedValue(user_value, "USER_CONFIG",
             <<"~/.config/">> \o package_name \o <<"/settings.toml">>,
             OverridesOf(<<
                 <<"PROJECT_CONFIG", project_value>>,
                 <<"PACKAGE_DEFAULT", default_value>> >>))
    ELSE IF is_not_None(project_value)
    THEN ResolvedValue(project_value, "PROJECT_CONFIG", <<"./settings.toml">>,
             OverridesOf(<< <<"PACKAGE_DEFAULT", default_value>> >>))
    ELSE ResolvedValue(default_value, "PACKAGE_DEFAULT",
             <<"Package built-in default">>, <<>>)

(* `x or {}` for an optional dict *)
OrEmpty(x) == IF x = None THEN EmptyDict ELSE x.v

apply_precedence(package_name, cli_args, env_vars, user_config_in, project_config_in, defaults) ==
    LET user_config == OrEmpty(user_config_in)
        project_config == OrEmpty(project_config_in)
        all_keys == collect_keys(cli_args, <<>>) \cup collect_keys(env_vars, <<>>)
                    \cup collect_keys(user_config, <<>>)
                    \cup collect_keys(project_config, <<>>)
                    \cup collect_keys(defaults, <<>>)
    IN  [key \in all_keys |->
            resolve_setting(key, package_name,
                get_value(cli_args, key), get_value(env_vars, key),
                get_value(user_config, key), get_value(project_config, key),
                get_value(defaults, key))]

PackageName == <<"color-scheme">>

----------------------------------------------------------------------------
(* _apply_precedence on given sources *)

K_backend == S("backend")
K_generation == S("generation")
K_saturation == S("saturation")
K_generation_saturation == <<"generation", Dot, "saturation">>

(* cli_args: a flat map from dot-path to value (a CLI option left unset is None) *)
CliArgsSet ==
    { EmptyDict,
      KV(K_backend, Str(S("cli"))),
      KV(K_backend, None),
      KV(K_generation_saturation, Num(5)),
      KV(K_backend, Str(S("cli"))) \o KV(K_generation_saturation, Num(5)) }

(* a nested source whose values are `sv` (a string) and `nv` *)
NestedTrees(sv, nv) ==
    { EmptyDict,
      KV(K_backend, sv),
      KV(K_generation, Dict(KV(K_saturation, nv))),
      KV(K_generation, sv),
      KV(K_generation, Dict(EmptyDict)) }

EnvVarsSet == NestedTrees(Str(S("env")), Str(S("0.8")))
UserConfigSet == {None} \cup {Dict(f) : f \in NestedTrees(Str(S("user")), Num(15))}
ProjectConfigSet == {None} \cup {Dict(f) : f \in NestedTrees(Str(S("project")), Num(13))}
DefaultsSet == NestedTrees(Str(S("default")), Num(10))

PrecedenceInit ==
    /\ srcs \in [cli_args : CliArgsSet, env_vars : EnvVarsSet,
                 user_config : UserConfigSet, project_config : ProjectConfigSet,
                 defaults : DefaultsSet]
    /\ ret = NoRet
    /\ MergeIdle
    /\ ResolverIdle
    /\ SettingsIdle

ApplyPrecedenceCall ==
    /\ ret' = [op |-> "apply_precedence",
               val |-> apply_precedence(PackageName, srcs.cli_args, srcs.env_vars,
                           srcs.user_config, srcs.project_config, srcs.defaults)]
    /\ UNCHANGED <<settingsVars, mergeVars, srcs, resolverVars>>

PrecedenceNext == ApplyPrecedenceCall

SpecPrecedence == PrecedenceInit /\ [][PrecedenceNext]_vars

----------------------------------------------------------------------------
(* Claims about _apply_precedence *)

Rank(source) == CHOOSE i \in 1..Len(ConfigSource) : ConfigSource[i] = source

(* The dot-path keys of a nested source with their values: one per leaf. *)
RECURSIVE Leaves(_, _)
Leaves(tree, prefix) ==
    UNION { LET path == IF prefix = <<>> THEN k ELSE prefix \o <<Dot>> \o k
            IN  IF Get(tree, k).t = "dict" THEN Leaves(Get(tree, k).v, path)
                ELSE {<<path, Get(tree, k)>>}
            : k \in Keys(tree) }

(* The dot-path keys of the flat cli_args map with their values. *)
FlatEntries(m) == {<<k, Get(m, k)>> : k \in Keys(m)}

NonNull(entries) == {e \in entries : e[2].t # "null"}

SourceEntries(source) ==
    CASE source = "CLI" -> NonNull(FlatEntries(srcs.cli_args))
      [] source = "ENV" -> NonNull(Leaves(srcs.env_vars, <<>>))
      [] source = "USER_CONFIG" -> NonNull(Leaves(OrEmpty(srcs.user_config), <<>>))
      [] source = "PROJECT_CONFIG" -> NonNull(Leaves(OrEmpty(srcs.project_config), <<>>))
      [] source = "PACKAGE_DEFAULT" -> NonNull(Leaves(srcs.defaults, <<>>))

SourceHas(source, k) == \E e \in SourceEntries(source) : e[1] = k
SourceValue(source, k) == (CHOOSE e \in SourceEntries(source) : e[1] = k)[2]
KeysOfSources == {e[1] : e \in UNION {SourceEntries(ConfigSource[i]) : i \in 1..5}}

(* The (source, value) pairs of the sources that have k, highest precedence first. *)
Having(k) ==
    LET all == [i \in 1..5 |->
                   <<ConfigSource[i],
                     IF SourceHas(ConfigSource[i], k)
                     THEN SourceValue(ConfigSource[i], k) ELSE None>>]
    IN  SelectSeq(all, LAMBDA p : p[2].t # "null")

\* C1: every dot-path key with a non-null value in at least one of the five
\* sources has an entry whose source is the highest-precedence source having
\* the key, whose value is that source's value and whose overrides are the
\* other sources having it, in descending precedence order.
C1_PrecedenceTotality ==
    ret.op = "apply_precedence" =>
        \A k \in KeysOfSources :
            /\ k \in DOMAIN ret.val
            /\ ret.val[k].source = Having(k)[1][1]
            /\ ret.val[k].value = Having(k)[1][2]
            /\ ret.val[k].overrides = Tail(Having(k))

\* C7: in every ResolvedValue the override sources are strictly lower in
\* precedence than the value's source, none appears twice, and they come in
\* descending precedence order.
C7_OverridesOrdered ==
    ret.op = "apply_precedence" =>
        \A k \in DOMAIN ret.val :
            LET rv == ret.val[k]
            IN  /\ \A i \in 1..Len(rv.overrides) :
                       Rank(rv.overrides[i][1]) > Rank(rv.source)
                /\ \A i, j \in 1..Len(rv.overrides) :
                       i < j => Rank(rv.overrides[i][1]) < Rank(rv.overrides[j][1])

\* C7 witness: a key set by all five sources, resolved to CLI with the four
\* other sources overridden.
C7_Witness ==
    /\ ret.op = "apply_precedence"
    /\ K_backend \in DOMAIN ret.val
    /\ ret.val[K_backend].source = "CLI"
    /\ Len(ret.val[K_backend].overrides) = 4

\* C9: no entry exists for a key without a non-null value in any source (so
\* no entry has a null value), and a key that only the package defaults set
\* has source PACKAGE_DEFAULT and no overrides.
C9_NoValueFromNowhere ==
    ret.op = "apply_precedence" =>
        /\ \A k \in DOMAIN ret.val :
               /\ k \in KeysOfSources
               /\ ret.val[k].value.t # "null"
        /\ \A k \in KeysOfSources :
               (\A i \in 1..4 : ~SourceHas(ConfigSource[i], k)) =>
                   /\ k \in DOMAIN ret.val
                   /\ ret.val[k].source = "PACKAGE_DEFAULT"
                   /\ ret.val[k].overrides = <<>>

----------------------------------------------------------------------------
(* resolver.py: ConfigResolver.resolve and the loaders it calls *)

TypeError == [t |-> "raise", v |-> "TypeError"]

load_package_defaults(settings) == EmptyDict

(* _load_project_config / _load_user_config: <<config or None, warnings added>> *)
load_optional_config(file, message, path) ==
    CASE file.state = "missing" -> <<None, <<>>>>
      [] file.state = "ok" -> <<Dict(file.data), <<>>>>
      [] file.state = "malformed" ->
            <<None, <<[level |-> "WARNING", message |-> message,
                       detail |-> <<"File: ">> \o path,
                       action |-> <<"Error: ", "TOMLDecodeError">>]>>>>

load_project_config(file) ==
    load_optional_config(file, <<"Failed to load project config">>, <<"./settings.toml">>)

load_user_config(file, package_name) ==
    load_optional_config(file, <<"Failed to load user config">>,
        <<"~/.config/">> \o package_name \o <<"/settings.toml">>)

EnvPrefix == "COLORSCHEME_"
LegacyTemplatesVar == <<"COLOR_SCHEME_TEMPLATES">>

(* the loop body's walk over parts[:-1] and the final assignment; `current`
   is whatever value the walk has reached *)
RECURSIVE set_nested(_, _, _)
set_nested(current, parts, value) ==
    IF current.t # "dict" THEN TypeError
    ELSE IF Len(parts) = 1 THEN Dict(put(current.v, lower(parts[1]), value))
    ELSE LET part_lower == lower(parts[1])
             below == IF Has(current.v, part_lower)
                      THEN Get(current.v, part_lower) ELSE Dict(EmptyDict)
             r == set_nested(below, Tail(parts), value)
         IN  IF r = TypeError THEN TypeError
             ELSE Dict(put(current.v, part_lower, r))

RECURSIVE collect_prefixed(_, _)
collect_prefixed(env, env_vars) ==
    IF env = <<>> \/ env_vars = TypeError THEN env_vars
    ELSE LET key == Head(env)[1]
             value == Head(env)[2]
         IN  IF Len(key) >= 1 /\ key[1] = EnvPrefix
             THEN collect_prefixed(Tail(env),
                      set_nested(env_vars, split(Tail(key), "__"), Str(value)))
             ELSE collect_prefixed(Tail(env), env_vars)

EnvHas(env, name) == \E i \in 1..Len(env) : env[i][1] = name
EnvGet(env, name) == env[CHOOSE i \in 1..Len(env) : env[i][1] = name][2]

collect_env_vars(env) ==
    LET env_vars == collect_prefixed(env, Dict(EmptyDict))
    IN  IF env_vars = TypeError THEN TypeError
        ELSE IF EnvHas(env, LegacyTemplatesVar)
        THEN LET with == IF Has(env_vars.v, S("templates")) THEN env_vars.v
                         ELSE put(env_vars.v, S("templates"), Dict(EmptyDict))
             IN  IF Get(with, S("templates")).t # "dict" THEN TypeError
                 ELSE Dict(put(with, S("templates"),
                          Dict(put(Get(with, S("templates")).v, S("directory"),
                                   Str(EnvGet(env, LegacyTemplatesVar))))))
        ELSE env_vars

(* resolve(): [status, val, added] where added are the warnings appended
   before it returned or raised *)
resolve(package_name, cli_args, env, project_file, user_file, package_file) ==
    LET defaults == load_package_defaults(package_file)
        project == load_project_config(project_file)
        user == load_user_config(user_file, package_name)
        env_vars == collect_env_vars(env)
        added == project[2] \o user[2]
    IN  IF env_vars = TypeError
        THEN [status |-> "raise", val |-> <<>>, added |-> added]
        ELSE [status |-> "ok",
              val |-> apply_precedence(package_name, cli_args, env_vars.v,
                          user[1], project[1], defaults),
              added |-> added]

----------------------------------------------------------------------------
(* The resolver in its environment *)

MaxWarnings == 2
MaxEnvVars == 2

K_core == S("core")
K_core_generation_saturation == <<"core", Dot, "generation", Dot, "saturation">>

ProjectFiles ==
    { Missing, Malformed,
      Parsed(KV(K_core, Dict(KV(K_generation, Dict(KV(K_saturation, Num(13))))))) }

UserFiles ==
    { Missing, Malformed,
      Parsed(KV(K_core, Dict(KV(K_generation, Dict(KV(K_saturation, Num(15))))))) }

PackageFiles ==
    { EmptyDict,
      KV(K_core, Dict(KV(K_generation, Dict(KV(K_saturation, Num(10)))))) }

EnvNames ==
    { <<EnvPrefix, "GENERATION", "__", "SATURATION">>,
      <<EnvPrefix, "GENERATION">>,
      <<EnvPrefix, "TEMPLATES">>,
      LegacyTemplatesVar,
      <<"HOME">> }

(* the value each variable is set to *)
EnvValue(name) ==
    CASE name = <<EnvPrefix, "GENERATION", "__", "SATURATION">> -> S("0.8")
      [] name = <<EnvPrefix, "GENERATION">> -> S("1.5")
      [] name = <<EnvPrefix, "TEMPLATES">> -> S("/templates")
      [] name = LegacyTemplatesVar -> S("/legacy")
      [] OTHER -> S("/home/u")

ResolveCliArgs ==
    { EmptyDict,
      KV(K_backend, Str(S("cli"))),
      KV(K_core_generation_saturation, Num(5)) }

ResolverInit ==
    /\ environ = <<>>
    /\ project_settings = Missing
    /\ user_settings = Missing
    /\ package_settings \in PackageFiles
    /\ warnings = <<>>
    /\ ret = NoRet
    /\ MergeIdle
    /\ PrecedenceIdle
    /\ SettingsIdle

(* a resolve() that starts from an empty warnings list *)
ResolveClearing(cli_args) ==
    LET r == resolve(PackageName, cli_args, environ, project_settings, user_settings,
                     package_settings)
    IN  /\ Len(warnings) + Len(r.added) <= MaxWarnings
        /\ warnings' = r.added
        /\ ret' = [op |-> "resolve", cli_args |-> cli_args, status |-> r.status,
                   val |-> r.val, added |-> r.added]
        /\ UNCHANGED <<settingsVars, mergeVars, srcs, environ, project_settings, user_settings,
                       package_settings>>

Resolve(cli_args) ==
    LET r == resolve(PackageName, cli_args, environ, project_settings, user_settings,
                     package_settings)
    IN  /\ Len(warnings) + Len(r.added) <= MaxWarnings
        /\ warnings' = warnings \o r.added
        /\ ret' = [op |-> "resolve", cli_args |-> cli_args, status |-> r.status,
                   val |-> r.val, added |-> r.added]
        /\ UNCHANGED <<settingsVars, mergeVars, srcs, environ, project_settings, user_settings,
                       package_settings>>

WriteProjectSettings(file) ==
    /\ project_settings' = file
    /\ ret' = NoRet
    /\ UNCHANGED <<settingsVars, mergeVars, srcs, environ, user_settings, package_settings, warnings>>

WriteUserSettings(file) ==
    /\ user_settings' = file
    /\ ret' = NoRet
    /\ UNCHANGED <<settingsVars, mergeVars, srcs, environ, project_settings, package_settings, warnings>>

(* os.environ[name] = value: a new name goes last, a known one keeps its place *)
SetEnv(name, value) ==
    /\ IF EnvHas(environ, name)
       THEN environ' = [i \in 1..Len(environ) |->
                           IF environ[i][1] = name THEN <<name, value>> ELSE environ[i]]
       ELSE /\ Len(environ) < MaxEnvVars
            /\ environ' = Append(environ, <<name, value>>)
    /\ environ' # environ
    /\ ret' = NoRet
    /\ UNCHANGED <<settingsVars, mergeVars, srcs, project_settings, user_settings, package_settings,
                   warnings>>

UnsetEnv(name) ==
    /\ EnvHas(environ, name)
    /\ environ' = SelectSeq(environ, LAMBDA e : e[1] # name)
    /\ ret' = NoRet
    /\ UNCHANGED <<settingsVars, mergeVars, srcs, project_settings, user_settings, package_settings,
                   warnings>>

(* ResolvedConfig.to_dict(): `current[parts[-1]] = value` after walking
   parts[:-1], creating {} for a missing part; assigning into or walking
   through a value that is not a dict raises TypeError *)
RECURSIVE to_dict_set(_, _, _)
to_dict_set(current, parts, value) ==
    IF ~isinstance_dict(current) THEN TypeError
    ELSE IF Len(parts) = 1 THEN Dict(put(current.v, parts[1], value))
    ELSE Bind(IF Has(current.v, parts[1]) THEN current.v
              ELSE put(current.v, parts[1], Dict(EmptyDict)),
              LAMBDA with :
                  Bind(to_dict_set(Get(with, parts[1]), Tail(parts), value),
                       LAMBDA r : IF r = TypeError THEN TypeError
                                  ELSE Dict(put(with, parts[1], r))))

(* `items` is self._values.items(): <<key, ResolvedValue>> in insertion order *)
RECURSIVE to_dict(_, _)
to_dict(items, result) ==
    IF items = <<>> \/ result = TypeError THEN result
    ELSE to_dict(Tail(items),
             to_dict_set(result, split(Head(items)[1], Dot), Head(items)[2].value))

(* _apply_precedence fills _values while iterating the set all_keys: the
   insertion order is any enumeration of the keys *)
RECURSIVE Orders(_)
Orders(keys) ==
    IF keys = {} THEN {<<>>}
    ELSE UNION { {<<key>> \o order : order \in Orders(keys \ {key})} : key \in keys }

(* config.to_dict() on the ResolvedConfig that resolve() just returned *)
ToDict ==
    /\ ret.op = "resolve"
    /\ ret.status = "ok"
    /\ \E order \in Orders(DOMAIN ret.val) :
           ret' = [op |-> "to_dict", config |-> ret.val,
                   res |-> to_dict([i \in 1..Len(order) |-> <<order[i], ret.val[order[i]]>>],
                                   Dict(EmptyDict))]
    /\ UNCHANGED <<settingsVars, mergeVars, srcs, resolverVars>>

ResolverNext ==
    \/ \E cli_args \in ResolveCliArgs : Resolve(cli_args)
    \/ \E file \in ProjectFiles : WriteProjectSettings(file)
    \/ \E file \in UserFiles : WriteUserSettings(file)
    \/ \E name \in EnvNames : SetEnv(name, EnvValue(name))
    \/ \E name \in EnvNames : UnsetEnv(name)

SpecResolver == ResolverInit /\ [][ResolverNext]_vars

(* the resolver under the two variables that can make resolve() raise after
   the settings files were read *)
ConflictingNames ==
    { <<EnvPrefix, "GENERATION">>, <<EnvPrefix, "GENERATION", "__", "SATURATION">> }

WarningsNext ==
    \/ \E cli_args \in ResolveCliArgs : Resolve(cli_args)
    \/ \E file \in ProjectFiles : WriteProjectSettings(file)
    \/ \E file \in UserFiles : WriteUserSettings(file)
    \/ \E name \in ConflictingNames : SetEnv(name, EnvValue(name))
    \/ \E name \in ConflictingNames : UnsetEnv(name)

SpecWarnings == ResolverInit /\ [][WarningsNext]_vars

(* the resolver with to_dict() called on its results; the settings files
   are well-formed and the user file may also hold a [generation] table *)
SectionFiles == { Parsed(KV(K_generation, Dict(KV(K_saturation, Num(15))))) }

ToDictInit ==
    /\ ResolverInit
    /\ package_settings = EmptyDict

ToDictNext ==
    \/ \E cli_args \in ResolveCliArgs : Resolve(cli_args)
    \/ \E file \in ProjectFiles \ {Malformed} : WriteProjectSettings(file)
    \/ \E file \in (UserFiles \ {Malformed}) \cup SectionFiles : WriteUserSettings(file)
    \/ \E name \in EnvNames : SetEnv(name, EnvValue(name))
    \/ \E name \in EnvNames : UnsetEnv(name)
    \/ ToDict

SpecToDict == ToDictInit /\ [][ToDictNext]_vars

----------------------------------------------------------------------------
(* Claims about ConfigResolver.resolve *)

FileLeaves(file) == IF file.state = "ok" THEN NonNull(Leaves(file.data, <<>>)) ELSE {}
EntryValue(entries, k) == (CHOOSE e \in entries : e[1] = k)[2]
Sets(entries, k) == \E e \in entries : e[1] = k

\* C8: every cli_args entry whose key is a dot-path (one segment or several)
\* and whose value is non-null is resolved under that key with that value
\* and source CLI.
C8_CliDotPathKeys ==
    (ret.op = "resolve" /\ ret.status = "ok") =>
        \A k \in Keys(ret.cli_args) :
            Get(ret.cli_args, k).t # "null" =>
                /\ k \in DOMAIN ret.val
                /\ ret.val[k].value = Get(ret.cli_args, k)
                /\ ret.val[k].source = "CLI"

\* C10: a key set by the package defaults, by the project file (second value)
\* and by the user file (third value), with no environment variable or CLI
\* argument for it, resolves to the user value with source USER_CONFIG and
\* overrides [(PROJECT_CONFIG, project value), (PACKAGE_DEFAULT, package value)].
C10_ThreeLayerChain ==
    (ret.op = "resolve" /\ ret.status = "ok") =>
        \A k \in {e[1] : e \in NonNull(Leaves(package_settings, <<>>))} :
            ( /\ Sets(FileLeaves(project_settings), k)
              /\ Sets(FileLeaves(user_settings), k)
              /\ k \notin Keys(ret.cli_args)
              /\ environ = <<>> ) =>
                /\ k \in DOMAIN ret.val
                /\ ret.val[k].value = EntryValue(FileLeaves(user_settings), k)
                /\ ret.val[k].source = "USER_CONFIG"
                /\ ret.val[k].overrides =
                       << <<"PROJECT_CONFIG", EntryValue(FileLeaves(project_settings), k)>>,
                          <<"PACKAGE_DEFAULT",
                            EntryValue(Leaves(package_settings, <<>>), k)>> >>

----------------------------------------------------------------------------
(* errors.py, and the exceptions of the libraries that pass through *)

Ok(x) == [status |-> "ok", val |-> x]
Raise(e) == [status |-> "raise", exc |-> e]

SettingsError == [type |-> "SettingsError"]
SettingsFileError(file_path) == [type |-> "SettingsFileError", file_path |-> file_path]
SettingsValidationError(namespace) ==
    [type |-> "SettingsValidationError", namespace |-> namespace]
SettingsOverrideError(key) == [type |-> "SettingsOverrideError", key |-> key]
SettingsRegistryError(namespace, reason) ==
    [type |-> "SettingsRegistryError", namespace |-> namespace, reason |-> reason]
PydanticValidationError == [type |-> "pydantic.ValidationError"]
AttributeError == [type |-> "AttributeError"]

----------------------------------------------------------------------------
(* transforms.py *)

(* the variable an atom of a string refers to; <<>> when it is plain text *)
VarName(a) ==
    CASE a = "$HOME" -> S("HOME")
      [] a = "${HOME}" -> S("HOME")
      [] a = "$NOSUCHVAR" -> S("NOSUCHVAR")
      [] OTHER -> <<>>

(* an expansion that drops the references to undefined variables *)
RECURSIVE expandvars_deleting(_, _)
expandvars_deleting(path, env) ==
    IF path = <<>> THEN <<>>
    ELSE (IF VarName(Head(path)) = <<>> THEN <<Head(path)>>
          ELSE IF EnvHas(env, VarName(Head(path))) THEN EnvGet(env, VarName(Head(path)))
          ELSE <<>>) \o expandvars_deleting(Tail(path), env)

(* os.path.expandvars: a reference to a defined variable becomes its value,
   anything else stays as it is written *)
RECURSIVE expandvars(_, _)
expandvars(path, env) ==
    IF path = <<>> THEN <<>>
    ELSE LET name == VarName(Head(path))
         IN  (IF name # <<>> /\ EnvHas(env, name)
              THEN EnvGet(env, name)
              ELSE <<Head(path)>>) \o expandvars(Tail(path), env)

RECURSIVE _resolve(_, _)
_resolve(value, env) ==
    CASE value.t = "str" -> Str(expandvars(value.v, env))
      [] value.t = "dict" ->
            Dict([i \in 1..Len(value.v) |->
                     <<value.v[i][1], _resolve(value.v[i][2], env)>>])
      [] value.t = "list" -> Lst([i \in 1..Len(value.v) |-> _resolve(value.v[i], env)])
      [] OTHER -> value

resolve_environment_variables(data, env) == _resolve(Dict(data), env).v

RECURSIVE convert_keys_to_lowercase(_)
RECURSIVE lowercase_items(_, _)

(* the loop over data.items(), `result` being the dict built so far *)
lowercase_items(result, items) ==
    IF items = <<>> THEN result
    ELSE LET key == Head(items)[1]
             value == Head(items)[2]
         IN  lowercase_items(
                 IF isinstance_dict(value)
                 THEN put(result, lower(key), Dict(convert_keys_to_lowercase(value.v)))
                 ELSE put(result, lower(key), value),
                 Tail(items))

convert_keys_to_lowercase(data) == lowercase_items(EmptyDict, data)

----------------------------------------------------------------------------
(* The schemas the namespaces are registered with (tests/test_pipeline.py)
   and what constructing a pydantic model from keyword data does with them *)

Required == [t |-> "required"]
DefaultFactory == [t |-> "default_factory"]
Field(name, type, default) == [name |-> name, type |-> type, default |-> default]
TStr == [k |-> "str"]
TFloat(ge, le) == [k |-> "float", ge |-> ge, le |-> le]
TListStr == [k |-> "list_str"]
TModel(cls) == [k |-> "model", cls |-> cls]

K_default_backend == S("default_backend")
K_saturation_adjustment == S("saturation_adjustment")
K_formats == S("formats")
K_output == S("output")
K_engine == S("engine")
K_orchestrator == S("orchestrator")

model_fields(cls) ==
    CASE cls = "PipelineCoreGeneration" ->
            << Field(K_default_backend, TStr, Str(S("pywal"))),
               Field(K_saturation_adjustment, TFloat(0, 20), Num(10)) >>
      [] cls = "PipelineCoreOutput" ->
            << Field(K_formats, TListStr, Lst(<<Str(S("json")), Str(S("css"))>>)) >>
      [] cls = "PipelineCoreConfig" ->
            << Field(K_generation, TModel("PipelineCoreGeneration"), DefaultFactory),
               Field(K_output, TModel("PipelineCoreOutput"), DefaultFactory) >>
      [] cls = "PipelineContainerConfig" ->
            << Field(K_engine, TStr, Str(S("docker"))) >>
      [] cls = "PipelineUnifiedConfig" ->
            << Field(K_core, TModel("PipelineCoreConfig"), Required),
               Field(K_orchestrator, TModel("PipelineContainerConfig"), Required) >>

Model(cls, fields) == [t |-> "model", cls |-> cls, v |-> fields]
Valid(x) == [ok |-> TRUE, val |-> x]
Invalid == [ok |-> FALSE, val |-> None]

(* float(): the numeric strings a float field accepts, as tenths *)
float_from_str(s) ==
    CASE s = S("1.5") -> Valid(Num(15))
      [] s = S("0.8") -> Valid(Num(8))
      [] s = S("5.0") -> Valid(Num(50))
      [] OTHER -> Invalid

RECURSIVE validate_model(_, _)
RECURSIVE validate_fields(_, _)
RECURSIVE validate_value(_, _)

validate_value(type, x) ==
    CASE type.k = "str" -> IF x.t = "str" THEN Valid(x) ELSE Invalid
      [] type.k = "float" ->
            LET n == IF x.t = "num" THEN Valid(x)
                     ELSE IF x.t = "str" THEN float_from_str(x.v) ELSE Invalid
            IN  IF n.ok /\ type.ge <= n.val.v /\ n.val.v <= type.le THEN n ELSE Invalid
      [] type.k = "list_str" ->
            IF x.t = "list" /\ \A i \in 1..Len(x.v) : x.v[i].t = "str"
            THEN Valid(x) ELSE Invalid
      [] type.k = "model" ->
            IF x.t = "model" THEN (IF x.cls = type.cls THEN Valid(x) ELSE Invalid)
            ELSE IF x.t = "dict" THEN validate_model(type.cls, x.v)
            ELSE Invalid

(* one field after the other: the given value validated, or the default;
   keys that are no field of the model are ignored *)
validate_fields(fields, data) ==
    IF fields = <<>> THEN Valid(<<>>)
    ELSE LET f == Head(fields)
         IN  Bind(IF Has(data, f.name) THEN validate_value(f.type, Get(data, f.name))
                  ELSE IF f.default = Required THEN Invalid
                  ELSE IF f.default = DefaultFactory
                       THEN validate_model(f.type.cls, EmptyDict)
                  ELSE Valid(f.default),
                  LAMBDA r :
                      IF ~r.ok THEN Invalid
                      ELSE Bind(validate_fields(Tail(fields), data),
                                LAMBDA rest :
                                    IF rest.ok THEN Valid(KV(f.name, r.val) \o rest.val)
                                    ELSE Invalid))

validate_model(cls, data) ==
    Bind(validate_fields(model_fields(cls), data),
         LAMBDA r : IF r.ok THEN Valid(Model(cls, r.val)) ELSE Invalid)

(* BaseModel.model_dump(): the instance as plain nested dicts *)
RECURSIVE model_dump(_)
model_dump(x) ==
    IF x.t = "model"
    THEN Dict([i \in 1..Len(x.v) |-> <<x.v[i][1], model_dump(x.v[i][2])>>])
    ELSE x

----------------------------------------------------------------------------
(* registry.py *)

Class(name) == [t |-> "class", v |-> name]
Path(p) == [t |-> "path", v |-> p]

SchemaEntry(namespace, model, defaults_file) ==
    [namespace |-> namespace, model |-> model, defaults_file |-> defaults_file]

registered(entries, namespace) == \E i \in 1..Len(entries) : entries[i].namespace = namespace

(* a register that replaces the entry of a namespace it already has *)
register_overwriting(entries, namespace, model, defaults_file) ==
    [ret |-> Ok(None),
     _entries |->
         IF registered(entries, namespace)
         THEN [i \in 1..Len(entries) |->
                  IF entries[i].namespace = namespace
                  THEN SchemaEntry(namespace, model, defaults_file) ELSE entries[i]]
         ELSE Append(entries, SchemaEntry(namespace, model, defaults_file))]

(* SchemaRegistry.register: what it raises or returns, and _entries after it *)
register(entries, namespace, model, defaults_file) ==
    IF registered(entries, namespace)
    THEN [ret |-> Raise(SettingsRegistryError(namespace, "namespace already registered")),
          _entries |-> entries]
    ELSE [ret |-> Ok(None),
          _entries |-> Append(entries, SchemaEntry(namespace, model, defaults_file))]

(* SchemaRegistry.get *)
get(entries, namespace) ==
    IF ~registered(entries, namespace)
    THEN Raise(SettingsRegistryError(namespace, "namespace not registered"))
    ELSE Ok(entries[CHOOSE i \in 1..Len(entries) : entries[i].namespace = namespace])

clear(entries) == [ret |-> Ok(None), _entries |-> <<>>]

all_entries(entries) == entries
all_namespaces(entries) == [i \in 1..Len(entries) |-> entries[i].namespace]

----------------------------------------------------------------------------
(* loader.py *)

Path_home == Path(<<"/home/u">>)
joinpath(p, name) == Path(p.v \o <<name>>)
exists(fs, path) == path \in DOMAIN fs /\ fs[path].state # "missing"

load_toml(fs, file_path) ==
    IF exists(fs, file_path) /\ fs[file_path].state = "ok"
    THEN Ok(fs[file_path].data)
    ELSE Raise(SettingsFileError(file_path))

LayerSource(layer, namespace, file_path, data) ==
    [layer |-> layer, namespace |-> namespace, file_path |-> file_path, data |-> data]

SettingsLoader(kwargs) ==
    [project_root |-> IF Has(kwargs, S("project_root"))
                      THEN Get(kwargs, S("project_root")) ELSE None,
     user_config_path |->
         IF Has(kwargs, S("user_config_path"))
         THEN Get(kwargs, S("user_config_path"))
         ELSE joinpath(joinpath(joinpath(Path_home, "/.config"), "/color-scheme"),
                       "/settings.toml")]

(* Layer 1: the defaults file of every entry that has one, in registry order *)
RECURSIVE package_layers(_, _)
package_layers(fs, entries) ==
    IF entries = <<>> THEN Ok(<<>>)
    ELSE LET entry == Head(entries)
         IN  IF exists(fs, entry.defaults_file)
             THEN Bind(load_toml(fs, entry.defaults_file),
                       LAMBDA data :
                           IF data.status = "raise" THEN data
                           ELSE Bind(package_layers(fs, Tail(entries)),
                                     LAMBDA rest :
                                         IF rest.status = "raise" THEN rest
                                         ELSE Ok(<<LayerSource("package", entry.namespace,
                                                       entry.defaults_file, Dict(data.val))>>
                                                 \o rest.val)))
             ELSE package_layers(fs, Tail(entries))

(* a fragment with an empty tree for every namespace the file does not have *)
RECURSIVE namespaced_layers_placeholder(_, _, _, _)
namespaced_layers_placeholder(layer, file_path, data, namespaces) ==
    IF namespaces = <<>> THEN <<>>
    ELSE <<LayerSource(layer, Head(namespaces), file_path,
                       IF Has(data, Head(namespaces))
                       THEN Get(data, Head(namespaces)) ELSE Dict(EmptyDict))>>
         \o namespaced_layers_placeholder(layer, file_path, data, Tail(namespaces))

(* the loop over all_namespaces(): one layer per namespace the file has *)
RECURSIVE namespaced_layers(_, _, _, _)
namespaced_layers(layer, file_path, data, namespaces) ==
    IF namespaces = <<>> THEN <<>>
    ELSE (IF Has(data, Head(namespaces))
          THEN <<LayerSource(layer, Head(namespaces), file_path,
                             Get(data, Head(namespaces)))>>
          ELSE <<>>) \o namespaced_layers(layer, file_path, data, Tail(namespaces))

(* Layers 2 and 3: a namespaced file, skipped when it does not exist *)
file_layers(fs, layer, file_path, namespaces) ==
    IF exists(fs, file_path)
    THEN Bind(load_toml(fs, file_path),
              LAMBDA data :
                  IF data.status = "raise" THEN data
                  ELSE Ok(namespaced_layers(layer, file_path, data.val, namespaces)))
    ELSE Ok(<<>>)

(* the project and user fragments appended in the opposite order *)
discover_layers_user_first(fs, entries, project_root, user_config_path) ==
    Bind(<<package_layers(fs, all_entries(entries)),
           IF project_root # None
           THEN file_layers(fs, "project", joinpath(project_root, "/settings.toml"),
                            all_namespaces(entries))
           ELSE Ok(<<>>),
           file_layers(fs, "user", user_config_path, all_namespaces(entries))>>,
         LAMBDA found :
             IF found[1].status = "raise" THEN found[1]
             ELSE IF found[2].status = "raise" THEN found[2]
             ELSE IF found[3].status = "raise" THEN found[3]
             ELSE Ok(found[1].val \o found[3].val \o found[2].val))

discover_layers(fs, entries, project_root, user_config_path) ==
    Bind(package_layers(fs, all_entries(entries)),
         LAMBDA package :
             IF package.status = "raise" THEN package
             ELSE Bind(IF project_root # None
                       THEN file_layers(fs, "project",
                                        joinpath(project_root, "/settings.toml"),
                                        all_namespaces(entries))
                       ELSE Ok(<<>>),
                       LAMBDA project :
                           IF project.status = "raise" THEN project
                           ELSE Bind(IF user_config_path # None
                                     THEN file_layers(fs, "user", user_config_path,
                                                      all_namespaces(entries))
                                     ELSE Ok(<<>>),
                                     LAMBDA user :
                                         IF user.status = "raise" THEN user
                                         ELSE Ok(package.val \o project.val \o user.val))))

----------------------------------------------------------------------------
(* merger.py: merge_layers *)

(* the loop over the layers; a layer whose data is no mapping has no .items() *)
RECURSIVE merge_layers_from(_, _)
merge_layers_from(merged, layers) ==
    IF layers = <<>> THEN Ok(merged)
    ELSE LET layer == Head(layers)
             ns == layer.namespace
         IN  IF ~isinstance_dict(layer.data) THEN Raise(AttributeError)
             ELSE Bind(IF Has(merged, ns) THEN merged ELSE put(merged, ns, Dict(EmptyDict)),
                       LAMBDA m :
                           merge_layers_from(
                               put(m, ns, Dict(deep_merge(Get(m, ns).v, layer.data.v))),
                               Tail(layers)))

(* a merge that folds each namespace's layers from the highest down:
   deep_merge(l1, deep_merge(l2, l3)) *)
RECURSIVE fold_right(_)
fold_right(layers) ==
    IF layers = <<>> THEN EmptyDict
    ELSE deep_merge(Head(layers).data.v, fold_right(Tail(layers)))

merge_layers_right_fold(layers) ==
    Bind(merge_layers_from(EmptyDict, layers),
         LAMBDA r :
             IF r.status # "ok" THEN r
             ELSE Ok([i \in 1..Len(r.val) |->
                         <<r.val[i][1],
                           Dict(fold_right(SelectSeq(layers,
                                    LAMBDA l : l.namespace = r.val[i][1])))>>]))

merge_layers_reversed(layers) ==
    merge_layers_from(EmptyDict, [i \in 1..Len(layers) |-> layers[Len(layers) + 1 - i]])

merge_layers(layers) == merge_layers_from(EmptyDict, layers)

----------------------------------------------------------------------------
(* unified.py *)

(* a constructed object: `id` is its identity, `val` the model instance *)
New(id, instance) == [t |-> "object", id |-> id, val |-> instance]

build_validated_namespace_lenient(namespace, model, data, env) ==
    Bind(validate_model(model,
             convert_keys_to_lowercase(resolve_environment_variables(data, env))),
         LAMBDA r : IF r.ok THEN Ok(r.val) ELSE Ok(validate_model(model, EmptyDict).val))

build_validated_namespace(namespace, model, data, env) ==
    LET transformed == convert_keys_to_lowercase(resolve_environment_variables(data, env))
    IN  Bind(validate_model(model, transformed),
             LAMBDA r : IF r.ok THEN Ok(r.val)
                        ELSE Raise(SettingsValidationError(namespace)))

(* the loop over SchemaRegistry.all_entries() *)
RECURSIVE validate_entries(_, _, _, _)
validate_entries(validated, entries, merged, env) ==
    IF entries = <<>> THEN Ok(validated)
    ELSE LET entry == Head(entries)
             ns_data == IF Has(merged, entry.namespace)
                        THEN Get(merged, entry.namespace).v ELSE EmptyDict
         IN  Bind(build_validated_namespace(entry.namespace, entry.model, ns_data, env),
                  LAMBDA r :
                      IF r.status = "raise" THEN r
                      ELSE validate_entries(put(validated, entry.namespace, r.val),
                                            Tail(entries), merged, env))

(* `fresh` lists identities no live object has; the built object takes the first *)
build_unified_config(unified_model, merged, entries, env, fresh) ==
    Bind(validate_entries(EmptyDict, all_entries(entries), merged, env),
         LAMBDA validated :
             IF validated.status = "raise" THEN validated
             ELSE Bind(validate_model(unified_model, validated.val),
                       LAMBDA r : IF r.ok THEN Ok(New(fresh[1], r.val))
                                  ELSE Raise(PydanticValidationError)))

----------------------------------------------------------------------------
(* overrides.py *)

(* the walk along `parts` from `target` and the assignment at the leaf:
   the tree after it, or no tree when a segment or the leaf is not there *)
RECURSIVE set_path(_, _, _)
set_path(target, parts, value) ==
    LET segment == Head(parts)
    IN  IF ~isinstance_dict(target) \/ ~Has(target.v, segment) THEN Invalid
        ELSE IF Len(parts) = 1 THEN Valid(Dict(put(target.v, segment, value)))
        ELSE Bind(set_path(Get(target.v, segment), Tail(parts), value),
                  LAMBDA sub : IF sub.ok THEN Valid(Dict(put(target.v, segment, sub.val)))
                               ELSE Invalid)

(* the loop over overrides.items() on config_dict *)
RECURSIVE apply_items(_, _)
apply_items(config_dict, items) ==
    IF items = <<>> THEN Ok(config_dict)
    ELSE LET dotted_key == Head(items)[1]
             value == Head(items)[2]
         IN  Bind(set_path(config_dict, split(dotted_key, Dot), value),
                  LAMBDA r : IF ~r.ok THEN Raise(SettingsOverrideError(dotted_key))
                             ELSE apply_items(r.val, Tail(items)))

(* config_dict is model_dump()'s own copy, so the assignments never reach
   `config`; the re-validated object is a new one *)
apply_overrides(config, overrides, fresh) ==
    IF overrides = EmptyDict THEN Ok(config)
    ELSE LET config_dict == model_dump(config.val)
         IN  Bind(apply_items(config_dict, overrides),
                  LAMBDA r :
                      IF r.status = "raise" THEN r
                      ELSE Bind(validate_model(config.val.cls, r.val.v),
                                LAMBDA v : IF v.ok THEN Ok(New(fresh[1], v.val))
                                           ELSE Raise(PydanticValidationError)))

----------------------------------------------------------------------------
(* __init__.py: configure, load_config, reload_config, get_config, reset.
   Each gives what the call returns or raises and the module globals after it. *)

K_project_root == S("project_root")
K_user_config_path == S("user_config_path")

configure(unified_model, project_root, user_config_path) ==
    [ret |-> Ok(None),
     _unified_model |-> unified_model,
     _loader_kwargs |->
         (IF project_root # None THEN KV(K_project_root, project_root) ELSE EmptyDict)
         \o (IF user_config_path # None
             THEN KV(K_user_config_path, user_config_path) ELSE EmptyDict),
     _config |-> None]

load_config_uncached(config, unified_model, loader_kwargs, entries, fs, env, fresh) ==
    IF unified_model = None THEN [ret |-> Raise(SettingsError), _config |-> config]
    ELSE LET loader == SettingsLoader(loader_kwargs)
         IN  Bind(discover_layers(fs, entries, loader.project_root,
                                  loader.user_config_path),
                  LAMBDA layers :
                      Bind(IF layers.status = "raise" THEN layers
                           ELSE merge_layers(layers.val),
                           LAMBDA merged :
                               Bind(IF merged.status = "raise" THEN merged
                                    ELSE build_unified_config(unified_model.v, merged.val,
                                                              entries, env, fresh),
                                    LAMBDA built :
                                        [ret |-> built,
                                         _config |-> IF built.status = "ok"
                                                     THEN built.val ELSE config])))

load_config(config, unified_model, loader_kwargs, entries, fs, env, fresh) ==
    IF config # None THEN [ret |-> Ok(config), _config |-> config]
    ELSE IF unified_model = None THEN [ret |-> Raise(SettingsError), _config |-> config]
    ELSE LET loader == SettingsLoader(loader_kwargs)
         IN  Bind(discover_layers(fs, entries, loader.project_root,
                                  loader.user_config_path),
                  LAMBDA layers :
                      Bind(IF layers.status = "raise" THEN layers
                           ELSE merge_layers(layers.val),
                           LAMBDA merged :
                               Bind(IF merged.status = "raise" THEN merged
                                    ELSE build_unified_config(unified_model.v, merged.val,
                                                              entries, env, fresh),
                                    LAMBDA built :
                                        [ret |-> built,
                                         _config |-> IF built.status = "ok"
                                                     THEN built.val ELSE config])))

reload_config(config, unified_model, loader_kwargs, entries, fs, env, fresh) ==
    load_config(None, unified_model, loader_kwargs, entries, fs, env, fresh)

(* a get_config that keeps the overridden config as the cached one *)
get_config_caching(overrides, config, unified_model, loader_kwargs, entries, fs, env, fresh) ==
    Bind(load_config(config, unified_model, loader_kwargs, entries, fs, env, fresh),
         LAMBDA loaded :
             IF loaded.ret.status = "raise" THEN loaded
             ELSE IF overrides # None /\ overrides.v # EmptyDict
             THEN Bind(apply_overrides(loaded.ret.val, overrides.v,
                           IF loaded.ret.val = config THEN fresh ELSE Tail(fresh)),
                       LAMBDA applied :
                           [ret |-> applied,
                            _config |-> IF applied.status = "ok" THEN applied.val
                                        ELSE loaded._config])
             ELSE loaded)

get_config(overrides, config, unified_model, loader_kwargs, entries, fs, env, fresh) ==
    Bind(load_config(config, unified_model, loader_kwargs, entries, fs, env, fresh),
         LAMBDA loaded :
             IF loaded.ret.status = "raise" THEN loaded
             ELSE IF overrides # None /\ overrides.v # EmptyDict
             THEN [ret |-> apply_overrides(loaded.ret.val, overrides.v,
                               IF loaded.ret.val = config THEN fresh ELSE Tail(fresh)),
                   _config |-> loaded._config]
             ELSE loaded)

(* a reset that leaves the registry as it is *)
reset_keeping_registry ==
    [ret |-> Ok(None), _config |-> None, _unified_model |-> None,
     _loader_kwargs |-> EmptyDict, _entries |-> _entries]

reset ==
    [ret |-> Ok(None), _config |-> None, _unified_model |-> None,
     _loader_kwargs |-> EmptyDict, _entries |-> <<>>]

----------------------------------------------------------------------------
(* Calls of apply_overrides on a validated PipelineUnifiedConfig *)

DotPath(parts) ==
    IF Len(parts) = 1 THEN parts[1]
    ELSE IF Len(parts) = 2 THEN parts[1] \o <<Dot>> \o parts[2]
    ELSE IF Len(parts) = 3 THEN parts[1] \o <<Dot>> \o parts[2] \o <<Dot>> \o parts[3]
    ELSE parts[1] \o <<Dot>> \o parts[2] \o <<Dot>> \o parts[3] \o <<Dot>> \o parts[4]

K_nonexistent == S("nonexistent")

UnifiedData ==
    { KV(K_core, Dict(EmptyDict)) \o KV(K_orchestrator, Dict(EmptyDict)),
      KV(K_core, Dict(KV(K_generation,
            Dict(KV(K_default_backend, Str(S("wallust")))
                 \o KV(K_saturation_adjustment, Num(8))))))
          \o KV(K_orchestrator, Dict(KV(K_engine, Str(S("podman"))))) }

ConfigObjects ==
    { New(1, validate_model("PipelineUnifiedConfig", d).val) : d \in UnifiedData }

OverrideEntries ==
    { <<DotPath(<<K_core, K_generation, K_saturation_adjustment>>), Num(15)>>,
      <<DotPath(<<K_core, K_generation, K_saturation_adjustment>>), Num(50)>>,
      <<DotPath(<<K_core, K_generation, K_default_backend>>), Str(S("wallust"))>>,
      <<DotPath(<<K_core, K_generation, K_nonexistent>>), Num(1)>>,
      <<DotPath(<<K_core, K_nonexistent, K_default_backend>>), Str(S("wallust"))>>,
      <<DotPath(<<K_core, K_generation, K_default_backend, K_nonexistent>>), Num(1)>>,
      <<DotPath(<<K_orchestrator, K_engine>>), Str(S("podman"))>>,
      <<DotPath(<<K_core, K_output, K_formats>>), Lst(<<Str(S("json"))>>)>>,
      <<DotPath(<<K_core, K_generation>>), Dict(KV(K_nonexistent, Num(1)))>>,
      <<DotPath(<<K_core, K_generation, K_default_backend>>), Num(1)>>,
      <<DotPath(<<K_core, K_generation>>), Num(5)>>,
      <<K_nonexistent, Num(1)>> }

(* dicts of at most two overrides, in either insertion order *)
OverrideMaps ==
    {EmptyDict} \cup {<<e>> : e \in OverrideEntries}
        \cup {m \in {<<e, f>> : e \in OverrideEntries, f \in OverrideEntries} :
                 m[1][1] # m[2][1]}

OverridesInit ==
    /\ args \in [config : ConfigObjects, overrides : OverrideMaps]
    /\ _entries = <<>>
    /\ files = NoFiles
    /\ _config = None
    /\ _unified_model = None
    /\ _loader_kwargs = EmptyDict
    /\ ret = NoRet
    /\ MergeIdle
    /\ PrecedenceIdle
    /\ ResolverIdle

ApplyOverridesCall ==
    /\ ret' = [op |-> "apply_overrides",
               res |-> apply_overrides(args.config, args.overrides, <<2>>),
               config |-> args.config]
    /\ UNCHANGED <<settingsVars, mergeVars, srcs, resolverVars>>

OverridesNext == ApplyOverridesCall

SpecOverrides == OverridesInit /\ [][OverridesNext]_vars

----------------------------------------------------------------------------
(* Claims about overrides.py *)

(* the dot-path leads, through mappings only, to a key the tree has *)
RECURSIVE Addressable(_, _)
Addressable(tree, parts) ==
    /\ tree.t = "dict"
    /\ Has(tree.v, Head(parts))
    /\ Len(parts) = 1 \/ Addressable(Get(tree.v, Head(parts)), Tail(parts))

RECURSIVE KeyPaths(_, _)
KeyPaths(tree, prefix) ==
    IF tree.t # "dict" THEN {}
    ELSE UNION { {prefix \o <<k>>} \cup KeyPaths(Get(tree.v, k), prefix \o <<k>>) :
                 k \in Keys(tree.v) }

BadPaths(config, overrides) ==
    { overrides[i][1] : i \in { j \in 1..Len(overrides) :
          ~Addressable(model_dump(config.val), split(overrides[j][1], Dot)) } }

\* C4: whenever a path of the override map has an absent intermediate
\* segment, walks through a non-mapping value or names a leaf the config does
\* not have, apply_overrides raises OverrideError naming such a path and
\* returns no config; the input config is as it was; a returned config has
\* no key the input did not have.
C4_OverridePathSafety ==
    ret.op = "apply_overrides" =>
        /\ BadPaths(args.config, args.overrides) # {} =>
              /\ ret.res.status = "raise"
              /\ ret.res.exc.type = "SettingsOverrideError"
              /\ ret.res.exc.key \in BadPaths(args.config, args.overrides)
        /\ ret.config = args.config
        /\ ret.res.status = "ok" =>
              KeyPaths(model_dump(ret.res.val.val), <<>>)
                  \subseteq KeyPaths(model_dump(args.config.val), <<>>)

----------------------------------------------------------------------------
(* Calls of build_unified_config on merged namespace data *)

CoreDefaultsFile == Path(<<"/pkg/core", "/settings.toml">>)
OrchestratorDefaultsFile == Path(<<"/pkg/orchestrator", "/settings.toml">>)
CoreEntry == SchemaEntry(K_core, "PipelineCoreConfig", CoreDefaultsFile)
OrchestratorEntry ==
    SchemaEntry(K_orchestrator, "PipelineContainerConfig", OrchestratorDefaultsFile)

HomeEnv == <<<<S("HOME"), S("/home/u")>>>>

Section(name, key, value) == KV(name, Dict(KV(key, value)))

MergedCore ==
    { EmptyDict,
      Section(K_generation, K_saturation_adjustment, Num(15)),
      Section(K_generation, K_saturation_adjustment, Num(50)),
      Section(K_generation, K_saturation_adjustment, Str(S("1.5"))),
      Section(K_generation, K_default_backend, Num(10)),
      Section(S("Generation"), K_default_backend, Str(S("wallust"))),
      Section(K_output, K_formats, Lst(<<Str(S("json"))>>)),
      KV(K_generation, Num(10)) }

MergedOrchestrator ==
    { EmptyDict,
      KV(K_engine, Str(S("podman"))),
      KV(K_engine, Str(<<"$HOME", "/bin/podman">>)),
      KV(K_engine, Num(10)) }

MergedTrees ==
    { (IF c = <<>> THEN EmptyDict ELSE KV(K_core, c[1]))
          \o (IF o = <<>> THEN EmptyDict ELSE KV(K_orchestrator, o[1])) :
      c \in OptionalValues({Dict(d) : d \in MergedCore}),
      o \in OptionalValues({Dict(d) : d \in MergedOrchestrator}) }

Registries ==
    { <<CoreEntry, OrchestratorEntry>>, <<OrchestratorEntry, CoreEntry>>, <<CoreEntry>> }

BuildInit ==
    /\ args \in [unified_model : {"PipelineUnifiedConfig"}, merged : MergedTrees]
    /\ _entries \in Registries
    /\ environ \in {<<>>, HomeEnv}
    /\ files = NoFiles
    /\ _config = None
    /\ _unified_model = None
    /\ _loader_kwargs = EmptyDict
    /\ project_settings = Missing
    /\ user_settings = Missing
    /\ package_settings = EmptyDict
    /\ warnings = <<>>
    /\ ret = NoRet
    /\ MergeIdle
    /\ PrecedenceIdle

BuildUnifiedConfigCall ==
    /\ ret' = [op |-> "build_unified_config",
               res |-> build_unified_config(args.unified_model, args.merged, _entries,
                                            environ, <<1>>)]
    /\ UNCHANGED <<settingsVars, mergeVars, srcs, resolverVars>>

BuildNext == BuildUnifiedConfigCall

SpecBuild == BuildInit /\ [][BuildNext]_vars

----------------------------------------------------------------------------
(* Claims about unified.py *)

(* the data build_unified_config validates for a namespace *)
NamespaceData(merged, namespace) ==
    IF Has(merged, namespace) THEN Get(merged, namespace).v ELSE EmptyDict

(* the namespace's data, transformed, as its schema takes it *)
Validated(model, data) ==
    validate_model(model,
        convert_keys_to_lowercase(resolve_environment_variables(data, environ)))

ViolatingNamespaces ==
    { _entries[i].namespace : i \in { j \in 1..Len(_entries) :
          ~Validated(_entries[j].model, NamespaceData(args.merged, _entries[j].namespace)).ok } }

\* C5: build_unified_config validates every registered namespace, a namespace
\* without merged data from empty data; when the data of a namespace violates
\* its schema it raises ValidationError whose namespace is such a namespace
\* and returns no object; an object it returns holds, for every registered
\* namespace, the validated data of that namespace.
C5_AllOrNothingBuild ==
    ret.op = "build_unified_config" =>
        /\ ViolatingNamespaces # {} =>
              /\ ret.res.status = "raise"
              /\ ret.res.exc.type = "SettingsValidationError"
              /\ ret.res.exc.namespace \in ViolatingNamespaces
        /\ ret.res.status = "ok" =>
              \A i \in 1..Len(_entries) :
                  /\ Has(ret.res.val.val.v, _entries[i].namespace)
                  /\ Get(ret.res.val.val.v, _entries[i].namespace)
                        = Validated(_entries[i].model,
                              NamespaceData(args.merged, _entries[i].namespace)).val

\* C5 witness: the core data holds a saturation of 5.0, outside 0.0..2.0, the
\* orchestrator data is valid, and the build raised ValidationError for core.
C5_Witness ==
    /\ ret.op = "build_unified_config"
    /\ Has(args.merged, K_core)
    /\ Get(args.merged, K_core) = Dict(Section(K_generation, K_saturation_adjustment, Num(50)))
    /\ Has(args.merged, K_orchestrator)
    /\ Get(args.merged, K_orchestrator) = Dict(KV(K_engine, Str(S("podman"))))
    /\ _entries = <<OrchestratorEntry, CoreEntry>>
    /\ ret.res = Raise(SettingsValidationError(K_core))

----------------------------------------------------------------------------
(* The pipeline end to end: configure(), load_config(), get_config() over the
   settings files of the three layers *)

ProjectRoot == Path(<<"/proj">>)
ProjectFile == joinpath(ProjectRoot, "/settings.toml")
UserFile == Path(<<"/cfg", "/user_settings.toml">>)

CorePackageFiles ==
    { Missing,
      Parsed(Section(K_generation, K_default_backend, Str(S("wallust")))),
      Parsed(Section(K_generation, K_saturation_adjustment, Num(8))),
      Parsed(Section(K_output, K_formats, Lst(<<Str(S("json"))>>))) }

OrchestratorPackageFiles ==
    { Missing, Parsed(KV(K_engine, Str(<<"$HOME", "/bin/podman">>))) }

PipelineProjectFiles ==
    { Missing,
      Parsed(KV(K_core, Dict(Section(K_generation, K_saturation_adjustment, Num(13))))),
      Parsed(KV(K_core, Dict(Section(S("Generation"), K_saturation_adjustment, Num(13))))),
      Parsed(KV(K_core, Dict(Section(K_generation, K_default_backend, Str(S("pywal")))))
             \o KV(K_orchestrator, Dict(KV(K_engine, Str(S("podman")))))),
      Parsed(KV(K_core, Dict(Section(K_output, K_formats,
                                     Lst(<<Str(S("json")), Str(S("yaml"))>>))))) }

PipelineUserFiles ==
    { Missing,
      Malformed,
      Parsed(KV(K_core, Dict(Section(K_generation, K_saturation_adjustment, Num(15))))),
      Parsed(KV(K_core, Dict(Section(S("Generation"), K_saturation_adjustment, Num(15))))),
      Parsed(KV(K_core, Dict(Section(K_generation, K_saturation_adjustment, Num(50))))) }

PipelineFiles ==
    { (CoreDefaultsFile :> c) @@ (OrchestratorDefaultsFile :> o)
          @@ (ProjectFile :> p) @@ (UserFile :> u) :
      c \in CorePackageFiles, o \in OrchestratorPackageFiles,
      p \in PipelineProjectFiles, u \in PipelineUserFiles }

PipelineOverrides ==
    { None,
      Dict(KV(DotPath(<<K_core, K_generation, K_saturation_adjustment>>), Num(5))),
      Dict(KV(DotPath(<<K_orchestrator, K_engine>>), Str(S("nerdctl")))
           \o KV(DotPath(<<K_core, K_output, K_formats>>), Lst(<<Str(S("sh"))>>))),
      Dict(KV(DotPath(<<K_core, K_generation, K_nonexistent>>), Num(1))) }

(* identities no live object has, smallest first *)
ObjectIds == 1..3
IdOf(x) == IF x # None /\ x.t = "object" THEN {x.id} ELSE {}
LiveIds ==
    IdOf(_config) \cup
    (IF ret.op \in {"load_config", "reload_config", "get_config"} /\ ret.res.status = "ok"
     THEN IdOf(ret.res.val) ELSE {})
RECURSIVE Ascending(_)
Ascending(ids) ==
    IF ids = {} THEN <<>>
    ELSE LET least == CHOOSE n \in ids : \A m \in ids : n <= m
         IN  <<least>> \o Ascending(ids \ {least})
FreshIds == Ascending(ObjectIds \ LiveIds)

PipelineInit ==
    /\ args = NoArgs
    /\ _entries = <<CoreEntry, OrchestratorEntry>>
    /\ files \in PipelineFiles
    /\ environ = HomeEnv
    /\ _config = None
    /\ _unified_model = None
    /\ _loader_kwargs = EmptyDict
    /\ project_settings = Missing
    /\ user_settings = Missing
    /\ package_settings = EmptyDict
    /\ warnings = <<>>
    /\ ret = NoRet
    /\ MergeIdle
    /\ PrecedenceIdle

Configure(unified_model, project_root, user_config_path) ==
    \E r \in {configure(unified_model, project_root, user_config_path)} :
        /\ _unified_model' = r._unified_model
        /\ _loader_kwargs' = r._loader_kwargs
        /\ _config' = r._config
        /\ ret' = [op |-> "configure", res |-> r.ret]
        /\ UNCHANGED <<args, _entries, files, mergeVars, srcs, resolverVars>>

LoadConfig ==
    \E r \in {load_config(_config, _unified_model, _loader_kwargs, _entries, files,
                          environ, FreshIds)} :
        /\ _config' = r._config
        /\ ret' = [op |-> "load_config", res |-> r.ret]
        /\ UNCHANGED <<args, _entries, files, _unified_model, _loader_kwargs,
                       mergeVars, srcs, resolverVars>>

GetConfig(overrides) ==
    \E r \in {get_config(overrides, _config, _unified_model, _loader_kwargs, _entries,
                         files, environ, FreshIds)} :
        /\ _config' = r._config
        /\ ret' = [op |-> "get_config", overrides |-> overrides, res |-> r.ret]
        /\ UNCHANGED <<args, _entries, files, _unified_model, _loader_kwargs,
                       mergeVars, srcs, resolverVars>>

PipelineNext ==
    \/ \E project_root \in {None, ProjectRoot} :
           Configure(Class("PipelineUnifiedConfig"), project_root, UserFile)
    \/ LoadConfig
    \/ \E overrides \in PipelineOverrides : GetConfig(overrides)

SpecPipeline == PipelineInit /\ [][PipelineNext]_vars

----------------------------------------------------------------------------
(* Claims about the pipeline end to end *)

(* the fields of a schema that hold plain values, with their path from the
   root of the namespace *)
RECURSIVE LeafFields(_, _)
LeafFields(cls, prefix) ==
    UNION { LET f == model_fields(cls)[i]
            IN  IF f.type.k = "model"
                THEN LeafFields(f.type.cls, prefix \o <<f.name>>)
                ELSE {[path |-> prefix \o <<f.name>>, type |-> f.type,
                       default |-> f.default]}
            : i \in 1..Len(model_fields(cls)) }

(* what a file layer gives for a path, keys read without regard to case:
   <<>> when it does not set it, <<value>> when it does *)
RECURSIVE LookupCI(_, _)
LookupCI(tree, parts) ==
    IF tree.t # "dict" THEN <<>>
    ELSE LET hits == {i \in 1..Len(tree.v) : lower(tree.v[i][1]) = Head(parts)}
         IN  IF hits = {} THEN <<>>
             ELSE LET x == tree.v[CHOOSE i \in hits : TRUE][2]
                  IN  IF Len(parts) = 1
                      THEN (IF x.t = "dict" THEN <<>> ELSE <<x>>)
                      ELSE LookupCI(x, Tail(parts))

NamespacedTree(path, namespace) ==
    IF exists(files, path) /\ files[path].state = "ok" /\ Has(files[path].data, namespace)
    THEN <<Get(files[path].data, namespace)>>
    ELSE <<>>

(* the file layers of a namespace as the loader is configured, highest first *)
FileLayers(entry) ==
    LET loader == SettingsLoader(_loader_kwargs)
    IN  NamespacedTree(loader.user_config_path, entry.namespace)
        \o (IF loader.project_root # None
            THEN NamespacedTree(joinpath(loader.project_root, "/settings.toml"),
                                entry.namespace)
            ELSE <<>>)
        \o (IF exists(files, entry.defaults_file) /\ files[entry.defaults_file].state = "ok"
            THEN <<Dict(files[entry.defaults_file].data)>>
            ELSE <<>>)

(* the value the highest-priority layer that sets the field gives, as the
   field's type reads it, else the schema's default *)
FileLayerValue(entry, f) ==
    LET setting == SelectSeq(FileLayers(entry), LAMBDA tree : LookupCI(tree, f.path) # <<>>)
    IN  IF setting = <<>> THEN f.default
        ELSE validate_value(f.type, _resolve(LookupCI(setting[1], f.path)[1], environ)).val

RECURSIVE FieldAt(_, _)
FieldAt(instance, path) ==
    IF path = <<>> THEN instance ELSE FieldAt(Get(instance.v, Head(path)), Tail(path))

Overridden(overrides, key) == overrides # None /\ Has(overrides.v, key)

\* C2: after configure() and load_config() every field of every registered
\* namespace holds the value of the highest-priority file layer that sets it
\* (user over project over package defaults), or the schema default when no
\* layer sets it; a config returned by get_config(overrides) holds the
\* override value at each overridden dot-path and the file-layer value in
\* every other field.
C2_LoadPrecedence ==
    /\ _config # None =>
          \A i \in 1..Len(_entries) :
              \A f \in LeafFields(_entries[i].model, <<>>) :
                  FieldAt(_config.val, <<_entries[i].namespace>> \o f.path)
                      = FileLayerValue(_entries[i], f)
    /\ (ret.op = "get_config" /\ ret.res.status = "ok") =>
          \A i \in 1..Len(_entries) :
              \A f \in LeafFields(_entries[i].model, <<>>) :
                  LET key == DotPath(<<_entries[i].namespace>> \o f.path)
                  IN  FieldAt(ret.res.val.val, <<_entries[i].namespace>> \o f.path)
                          = IF Overridden(ret.overrides, key)
                            THEN validate_value(f.type, Get(ret.overrides.v, key)).val
                            ELSE FileLayerValue(_entries[i], f)

----------------------------------------------------------------------------
(* The life of the cached config: registration, configure(), load_config(),
   reload_config(), get_config(), reset(), with the files changing in between *)

CacheFiles(path) ==
    IF path = CoreDefaultsFile
    THEN {Missing, Malformed, Parsed(Section(K_generation, K_saturation_adjustment, Num(8)))}
    ELSE IF path = ProjectFile
    THEN {Missing, Malformed, Parsed(KV(K_core, Num(5)))}
    ELSE {Missing, Malformed,
          Parsed(KV(K_core, Dict(Section(K_generation, K_saturation_adjustment, Num(15))))),
          Parsed(KV(K_core, Dict(Section(K_generation, K_saturation_adjustment, Num(50)))))}

CacheInit ==
    /\ args = NoArgs
    /\ _entries = <<>>
    /\ files = (CoreDefaultsFile :> Missing) @@ (OrchestratorDefaultsFile :> Missing)
                   @@ (ProjectFile :> Missing) @@ (UserFile :> Missing)
    /\ environ = HomeEnv
    /\ _config = None
    /\ _unified_model = None
    /\ _loader_kwargs = EmptyDict
    /\ project_settings = Missing
    /\ user_settings = Missing
    /\ package_settings = EmptyDict
    /\ warnings = <<>>
    /\ ret = NoRet
    /\ MergeIdle
    /\ PrecedenceIdle

Register(entry) ==
    \E r \in {register(_entries, entry.namespace, entry.model, entry.defaults_file)} :
        /\ _entries' = r._entries
        /\ ret' = [op |-> "register", res |-> r.ret, entry |-> entry]
        /\ UNCHANGED <<args, files, moduleVars, mergeVars, srcs, resolverVars>>

ReloadConfig ==
    \E r \in {reload_config(_config, _unified_model, _loader_kwargs, _entries, files,
                            environ, FreshIds)} :
        /\ _config' = r._config
        /\ ret' = [op |-> "reload_config", res |-> r.ret]
        /\ UNCHANGED <<args, _entries, files, _unified_model, _loader_kwargs,
                       mergeVars, srcs, resolverVars>>

Reset ==
    /\ _config' = reset._config
    /\ _unified_model' = reset._unified_model
    /\ _loader_kwargs' = reset._loader_kwargs
    /\ _entries' = reset._entries
    /\ ret' = [op |-> "reset", res |-> reset.ret,
               was |-> [_config |-> _config, _entries |-> _entries]]
    /\ UNCHANGED <<args, files, mergeVars, srcs, resolverVars>>

WriteFile(path, file) ==
    /\ files[path] # file
    /\ files' = [files EXCEPT ![path] = file]
    /\ ret' = NoRet
    /\ UNCHANGED <<args, _entries, moduleVars, mergeVars, srcs, resolverVars>>

CacheOverrides ==
    { None, Dict(EmptyDict),
      Dict(KV(DotPath(<<K_core, K_generation, K_saturation_adjustment>>), Num(5))),
      Dict(KV(DotPath(<<K_core, K_generation, K_saturation_adjustment>>), Num(50))),
      Dict(KV(DotPath(<<K_core, K_nonexistent>>), Num(1))) }

CacheNext ==
    \/ \E entry \in {CoreEntry, OrchestratorEntry} : Register(entry)
    \/ \E project_root \in {None, ProjectRoot} :
           Configure(Class("PipelineUnifiedConfig"), project_root, UserFile)
    \/ LoadConfig
    \/ ReloadConfig
    \/ \E overrides \in CacheOverrides : GetConfig(overrides)
    \/ Reset
    \/ \E path \in {CoreDefaultsFile, ProjectFile, UserFile} :
           \E file \in CacheFiles(path) : WriteFile(path, file)

SpecCache == CacheInit /\ [][CacheNext]_vars

----------------------------------------------------------------------------
(* Claims about the cache *)

(* the config a full discovery, merge and validation gives right now *)
Rebuilt ==
    LET loader == SettingsLoader(_loader_kwargs)
        layers == discover_layers(files, _entries, loader.project_root,
                                  loader.user_config_path)
        merged == IF layers.status = "ok" THEN merge_layers(layers.val) ELSE layers
    IN  IF _unified_model = None THEN Raise(SettingsError)
        ELSE IF merged.status = "ok"
        THEN build_unified_config(_unified_model.v, merged.val, _entries, environ, <<0>>)
        ELSE merged

CacheStep ==
    /\ (_config # None /\ ret'.op = "load_config") =>
          (ret'.res = Ok(_config) /\ _config' = _config)
    /\ (_config # None /\ _config' # _config) =>
          ret'.op \in {"reload_config", "configure", "reset"}
    /\ ret'.op = "reload_config" =>
          IF ret'.res.status = "ok"
          THEN /\ _config' = ret'.res.val
               /\ ret'.res.val.id \notin IdOf(_config)
               /\ Rebuilt.status = "ok"
               /\ ret'.res.val.val = Rebuilt.val.val
          ELSE _config' = None /\ Rebuilt.status = "raise"

\* C6: while a config is cached, load_config() returns that very object and
\* leaves it cached, whatever the files and the registry hold by then; the
\* cached object is only ever replaced or dropped by reload_config(),
\* configure() or reset(); reload_config() returns an object that is not the
\* one cached before, built from the files and registry as they are now, and
\* caches it, and leaves nothing cached when the rebuild fails.
C6_ConfigCache == [][CacheStep]_vars

\* C6 witness: load_config() has just returned the cached object although the
\* user file has become unreadable since it was built.
C6_Witness ==
    /\ ret.op = "load_config"
    /\ _config # None
    /\ ret.res = Ok(_config)
    /\ files[UserFile] = Malformed

----------------------------------------------------------------------------
(* Claims about the optional settings files of ConfigResolver.resolve *)

ProjectPath == "./settings.toml"
UserPath == "/settings.toml"

(* the warnings of a call that are of level WARNING and name the file *)
WarningsFor(added, path) ==
    SelectSeq(added, LAMBDA w :
        w.level = "WARNING" /\ \E i \in 1..Len(w.detail) : w.detail[i] = path)

(* the source is the winner of no key and in the overrides of none *)
Absent(resolved, source) ==
    \A k \in DOMAIN resolved :
        /\ resolved[k].source # source
        /\ \A i \in 1..Len(resolved[k].overrides) : resolved[k].overrides[i][1] # source

\* C11: with a project or user settings file that exists but does not parse,
\* resolve() does not raise; the malformed source wins no key and is in no
\* overrides list; the call records exactly one warning of level WARNING
\* naming each malformed file, and none for a missing file.
C11_MalformedOptionalFile ==
    ret.op = "resolve" =>
        /\ (project_settings = Malformed \/ user_settings = Malformed) =>
              ret.status = "ok"
        /\ (ret.status = "ok" /\ project_settings = Malformed) =>
              Absent(ret.val, "PROJECT_CONFIG")
        /\ (ret.status = "ok" /\ user_settings = Malformed) =>
              Absent(ret.val, "USER_CONFIG")
        /\ Len(WarningsFor(ret.added, ProjectPath))
              = IF project_settings = Malformed THEN 1 ELSE 0
        /\ Len(WarningsFor(ret.added, UserPath))
              = IF user_settings = Malformed THEN 1 ELSE 0
        /\ Len(ret.added) = Len(WarningsFor(ret.added, ProjectPath))
                              + Len(WarningsFor(ret.added, UserPath))

C11_ButForEnvironment ==
    (ret.op = "resolve" /\ collect_env_vars(environ) # TypeError) =>
        C11_MalformedOptionalFile

----------------------------------------------------------------------------
(* merge_layers called on lists of layers *)

LayerNames == <<"package", "project", "user">>
MaxLayers == Len(LayerNames)

(* what a settings file holds for one namespace *)
LayerData ==
    { Dict(EmptyDict),
      Dict(Section(K_generation, K_saturation_adjustment, Num(8))),
      Dict(Section(K_generation, K_saturation_adjustment, Num(15))),
      Dict(Section(K_generation, K_default_backend, Str(S("wallust")))
               \o KV(K_formats, Lst(<<Str(S("json"))>>))),
      Dict(KV(K_generation, Num(5)) \o KV(K_formats, Lst(<<Str(S("css"))>>))),
      Dict(KV(K_generation, Lst(<<Str(S("json"))>>))),
      Num(5) }

LayerLists ==
    UNION { { [i \in 1..n |-> LayerSource(LayerNames[i], nd[i][1], ProjectFile, nd[i][2])] :
              nd \in [1..n -> {K_core, K_orchestrator} \X LayerData] } :
            n \in 0..MaxLayers }

LayersInit ==
    /\ args \in [layers : LayerLists]
    /\ _entries = <<>>
    /\ files = NoFiles
    /\ _config = None
    /\ _unified_model = None
    /\ _loader_kwargs = EmptyDict
    /\ ret = NoRet
    /\ MergeIdle
    /\ PrecedenceIdle
    /\ ResolverIdle

MergeLayersCall ==
    /\ ret' = [op |-> "merge_layers", res |-> merge_layers(args.layers),
               layers |-> args.layers]
    /\ UNCHANGED <<settingsVars, mergeVars, srcs, resolverVars>>

LayersNext == MergeLayersCall

SpecLayers == LayersInit /\ [][LayersNext]_vars

----------------------------------------------------------------------------
(* Claims about merge_layers *)

(* the layers of one namespace, in their relative order *)
LayersOf(layers, ns) == SelectSeq(layers, LAMBDA l : l.namespace = ns)

(* deep_merge folded from the left over the data of the layers, from {} *)
RECURSIVE FoldLeft(_)
FoldLeft(layers) ==
    IF layers = <<>> THEN EmptyDict
    ELSE deep_merge(FoldLeft(SubSeq(layers, 1, Len(layers) - 1)),
                    layers[Len(layers)].data.v)

Namespaces(layers) == {layers[i].namespace : i \in 1..Len(layers)}

\* C12: merge_layers returns, for every namespace that has a layer, the left
\* fold of deep_merge from the empty tree over that namespace's layers in the
\* order they arrive (so the last layer's leaves win, whatever layers of other
\* namespaces are interleaved), and no entry for a namespace without a layer.
C12_MergeLayersFold ==
    (ret.op = "merge_layers" /\ ret.res.status = "ok") =>
        /\ Keys(ret.res.val) = Namespaces(ret.layers)
        /\ Len(ret.res.val) = Cardinality(Namespaces(ret.layers))
        /\ \A ns \in Namespaces(ret.layers) :
              /\ Get(ret.res.val, ns) = Dict(FoldLeft(LayersOf(ret.layers, ns)))
              /\ LET last == LayersOf(ret.layers, ns)[Len(LayersOf(ret.layers, ns))].data.v
                 IN  \A k \in Keys(last) :
                         ~isinstance_dict(Get(last, k)) =>
                             Get(Get(ret.res.val, ns).v, k) = Get(last, k)

(* two layers of one namespace that disagree, a layer of another between them *)
C12_Witness ==
    /\ ret.op = "merge_layers"
    /\ ret.res.status = "ok"
    /\ Len(ret.layers) = 3
    /\ ret.layers[1].namespace = K_core
    /\ ret.layers[2].namespace = K_orchestrator
    /\ ret.layers[3].namespace = K_core
    /\ ret.layers[1].data = Dict(Section(K_generation, K_saturation_adjustment, Num(8)))
    /\ ret.layers[3].data = Dict(Section(K_generation, K_saturation_adjustment, Num(15)))
    /\ Get(ret.res.val, K_core) = ret.layers[3].data

----------------------------------------------------------------------------
(* discover_layers called on registries, loader arguments and file systems *)

DefaultUserFile ==
    joinpath(joinpath(joinpath(Path_home, "/.config"), "/color-scheme"), "/settings.toml")
K_tools == S("tools")

DiscoverCoreFiles ==
    { Missing, Malformed, Parsed(EmptyDict),
      Parsed(Section(K_generation, K_saturation_adjustment, Num(8))) }

DiscoverOrchestratorFiles == { Missing, Parsed(KV(K_engine, Str(S("podman")))) }

DiscoverProjectFiles ==
    { Missing, Malformed,
      Parsed(KV(K_core, Dict(Section(K_generation, K_saturation_adjustment, Num(13))))),
      Parsed(KV(K_tools, Dict(KV(K_engine, Str(S("docker")))))
             \o KV(K_orchestrator, Dict(KV(K_engine, Str(S("docker")))))
             \o KV(K_core, Dict(Section(K_output, K_formats, Lst(<<Str(S("json"))>>))))),
      Parsed(KV(K_tools, Dict(KV(K_engine, Str(S("docker")))))) }

DiscoverUserFiles ==
    { Missing, Malformed,
      Parsed(KV(K_core, Dict(Section(K_generation, K_saturation_adjustment, Num(15))))),
      Parsed(KV(K_orchestrator, Dict(EmptyDict)) \o KV(K_core, Num(5))),
      Parsed(KV(S("Core"), Dict(Section(K_generation, K_saturation_adjustment, Num(15))))) }

DiscoverDefaultUserFiles ==
    { Missing,
      Parsed(KV(K_core, Dict(Section(K_generation, K_default_backend, Str(S("wallust")))))) }

DiscoverFiles ==
    { (CoreDefaultsFile :> c) @@ (OrchestratorDefaultsFile :> o)
          @@ (ProjectFile :> p) @@ (UserFile :> u) @@ (DefaultUserFile :> d) :
      c \in DiscoverCoreFiles, o \in DiscoverOrchestratorFiles,
      p \in DiscoverProjectFiles, u \in DiscoverUserFiles,
      d \in DiscoverDefaultUserFiles }

LoaderKwargs ==
    { pr \o uc : pr \in {EmptyDict, KV(K_project_root, ProjectRoot)},
                 uc \in {EmptyDict, KV(K_user_config_path, UserFile)} }

DiscoverInit ==
    /\ _entries \in Registries \cup {<<>>}
    /\ files \in DiscoverFiles
    /\ _loader_kwargs \in LoaderKwargs
    /\ args = NoArgs
    /\ _config = None
    /\ _unified_model = None
    /\ ret = NoRet
    /\ MergeIdle
    /\ PrecedenceIdle
    /\ ResolverIdle

DiscoverLayersCall ==
    \E loader \in {SettingsLoader(_loader_kwargs)} :
        /\ ret' = [op |-> "discover_layers",
                   res |-> discover_layers(files, _entries, loader.project_root,
                                           loader.user_config_path)]
        /\ UNCHANGED <<settingsVars, mergeVars, srcs, resolverVars>>

DiscoverNext == DiscoverLayersCall

SpecDiscover == DiscoverInit /\ [][DiscoverNext]_vars

----------------------------------------------------------------------------
(* Claims about discover_layers *)

LayerRank(layer) ==
    CASE layer = "package" -> 1 [] layer = "project" -> 2 [] layer = "user" -> 3

(* the file of a namespaced layer, None when the loader has none *)
LayerFile(layer) ==
    IF layer = "project"
    THEN IF SettingsLoader(_loader_kwargs).project_root = None THEN None
         ELSE joinpath(SettingsLoader(_loader_kwargs).project_root, "/settings.toml")
    ELSE SettingsLoader(_loader_kwargs).user_config_path

(* the namespace has a defaults file, resp. a top-level key in the layer's file *)
InLayer(layer, entry) ==
    IF layer = "package" THEN exists(files, entry.defaults_file)
    ELSE /\ LayerFile(layer) # None
         /\ exists(files, LayerFile(layer))
         /\ Has(files[LayerFile(layer)].data, entry.namespace)

(* what the fragment of the namespace in the layer has to be *)
Fragment(layer, entry) ==
    IF layer = "package"
    THEN LayerSource("package", entry.namespace, entry.defaults_file,
                     Dict(files[entry.defaults_file].data))
    ELSE LayerSource(layer, entry.namespace, LayerFile(layer),
                     Get(files[LayerFile(layer)].data, entry.namespace))

Discovered == {ret.res.val[i] : i \in 1..Len(ret.res.val)}

(* the files the discovery reads *)
FilesRead ==
    {_entries[i].defaults_file : i \in 1..Len(_entries)}
        \cup ({LayerFile("project"), LayerFile("user")} \ {None})

\* C13: in the list discover_layers returns, every package fragment comes
\* before every project fragment and every project fragment before every user
\* fragment; no two fragments have the same layer and namespace; a namespace
\* present in all three files has exactly the layers package, project, user,
\* in that order.
C13_DiscoveryOrder ==
    (ret.op = "discover_layers" /\ ret.res.status = "ok") =>
        /\ \A i, j \in 1..Len(ret.res.val) :
              i < j => LayerRank(ret.res.val[i].layer) <= LayerRank(ret.res.val[j].layer)
        /\ \A i, j \in 1..Len(ret.res.val) :
              (ret.res.val[i].layer = ret.res.val[j].layer
                  /\ ret.res.val[i].namespace = ret.res.val[j].namespace) => i = j
        /\ \A e \in 1..Len(_entries) :
              (\A layer \in {"package", "project", "user"} : InLayer(layer, _entries[e])) =>
                  [i \in 1..3 |->
                      SelectSeq(ret.res.val,
                                LAMBDA l : l.namespace = _entries[e].namespace)[i].layer]
                      = <<"package", "project", "user">>

(* both namespaces in all three files: six fragments *)
C13_Witness ==
    /\ ret.op = "discover_layers"
    /\ ret.res.status = "ok"
    /\ Len(_entries) = 2
    /\ \A e \in 1..2 : \A layer \in {"package", "project", "user"} :
           InLayer(layer, _entries[e])
    /\ Len(ret.res.val) = 6

\* C14: discover_layers emits a fragment for a layer and a registered namespace
\* exactly when the layer's file exists and (project, user) has the namespace
\* as a top-level key; the package fragment holds the whole defaults file, a
\* project or user fragment the value under the namespace key; nothing is
\* emitted for unregistered keys, missing files or a project layer without a
\* project root, and it raises only for a file it reads that does not parse.
C14_DiscoveryContent ==
    ret.op = "discover_layers" =>
        /\ ret.res.status = "ok" =>
              Discovered = { Fragment(layer, _entries[e]) :
                                 <<layer, e>> \in
                                     { le \in {"package", "project", "user"}
                                                  \X (1..Len(_entries)) :
                                           InLayer(le[1], _entries[le[2]]) } }
        /\ ret.res.status = "raise" <=>
              \E f \in FilesRead : files[f].state = "malformed"
        /\ ret.res.status = "raise" =>
              \E f \in FilesRead : /\ files[f].state = "malformed"
                                   /\ ret.res.exc = SettingsFileError(f)

(* a project file with an unregistered key, no defaults file, no user file *)
C14_Witness ==
    /\ ret.op = "discover_layers"
    /\ ret.res.status = "ok"
    /\ _entries = <<CoreEntry>>
    /\ ~exists(files, CoreDefaultsFile)
    /\ LayerFile("project") # None
    /\ Has(files[ProjectFile].data, K_tools)
    /\ Has(files[ProjectFile].data, K_orchestrator)
    /\ ~exists(files, LayerFile("user"))
    /\ Len(ret.res.val) = 1
    /\ ret.res.val[1].layer = "project"
    /\ ret.res.val[1].data = Get(files[ProjectFile].data, K_core)

----------------------------------------------------------------------------
(* Claims about the re-validation and the result of apply_overrides *)

SettingsErrorTaxonomy ==
    { "SettingsError", "SettingsFileError", "SettingsValidationError",
      "SettingsOverrideError", "SettingsRegistryError" }

(* every path of the map exists and the tree with the values written fails
   the schema of the config's class *)
ViolatesSchema(config, overrides) ==
    /\ overrides # EmptyDict
    /\ BadPaths(config, overrides) = {}
    /\ apply_items(model_dump(config.val), overrides).status = "ok"
    /\ ~validate_model(config.val.cls,
                       apply_items(model_dump(config.val), overrides).val.v).ok

\* C15: when every override path exists and the tree with the override values
\* written violates the schema, apply_overrides returns no config and raises
\* the ValidationError of the settings taxonomy, carrying a namespace of the
\* config.
C15_OverridesRevalidated ==
    (ret.op = "apply_overrides" /\ ViolatesSchema(args.config, args.overrides)) =>
        /\ ret.res.status = "raise"
        /\ ret.res.exc.type \in SettingsErrorTaxonomy
        /\ ret.res.exc.type = "SettingsValidationError"
        /\ ret.res.exc.namespace \in {K_core, K_orchestrator}

\* C16: after apply_overrides, for every overrides map, the empty one included,
\* the input config equals its value before the call and a returned config is
\* an object other than the input.
C16_NewInstance ==
    ret.op = "apply_overrides" =>
        /\ ret.config = args.config
        /\ ret.res.status = "ok" => ret.res.val.id # args.config.id

----------------------------------------------------------------------------
(* Claims about failing loads *)

(* the call ran the pipeline: nothing was cached, or it was a reload *)
PipelineRan ==
    /\ _unified_model # None
    /\ \/ ret'.op = "reload_config"
       \/ ret'.op = "load_config" /\ _config = None

MalformedRead == {f \in FilesRead \cap DOMAIN files : files[f].state = "malformed"}

(* the fragments found for the namespace when every file read parses *)
FragmentsOf(namespace) ==
    LayersOf(discover_layers(files, _entries, SettingsLoader(_loader_kwargs).project_root,
                             SettingsLoader(_loader_kwargs).user_config_path).val,
             namespace)

(* a fragment of the namespace is no mapping, or the merged fragments violate
   the namespace's schema *)
FailsValidation(entry) ==
    \/ \E i \in 1..Len(FragmentsOf(entry.namespace)) :
           ~isinstance_dict(FragmentsOf(entry.namespace)[i].data)
    \/ ~Validated(entry.model, FoldLeft(FragmentsOf(entry.namespace))).ok

FailingNamespaces ==
    { _entries[i].namespace : i \in {j \in 1..Len(_entries) : FailsValidation(_entries[j])} }

LoadFailureStep ==
    /\ PipelineRan =>
          /\ MalformedRead # {} =>
                /\ ret'.res.status = "raise"
                /\ ret'.res.exc.type = "SettingsFileError"
                /\ ret'.res.exc.file_path \in MalformedRead
          /\ (MalformedRead = {} /\ FailingNamespaces # {}) =>
                /\ ret'.res.status = "raise"
                /\ ret'.res.exc.type = "SettingsValidationError"
                /\ ret'.res.exc.namespace \in FailingNamespaces
          /\ ret'.res.status = "raise" => _config' = None
    /\ (ret'.op = "load_config" /\ _config = None) =>
          /\ ret'.res.status = Rebuilt.status
          /\ ret'.res.status = "ok" =>
                (ret'.res.val.val = Rebuilt.val.val /\ _config' = ret'.res.val)

\* C17: a load_config() or reload_config() that runs the pipeline raises
\* FileError carrying the path of a file it reads that exists but does not
\* parse, and otherwise ValidationError for a namespace whose data fails
\* validation; after either nothing is cached, also after a failed reload, and
\* a load_config() with nothing cached runs the whole pipeline again.
C17_LoadFailures == [][LoadFailureStep]_vars

----------------------------------------------------------------------------
(* Calls of the SchemaRegistry *)

RegistryNamespaces == {K_core, K_orchestrator, S("tools")}

RegistryEntries ==
    { SchemaEntry(namespace, model, defaults_file) :
          namespace \in RegistryNamespaces,
          model \in {"PipelineCoreConfig", "PipelineContainerConfig"},
          defaults_file \in {CoreDefaultsFile, OrchestratorDefaultsFile} }

RegistryInit ==
    /\ _entries = <<>>
    /\ args = NoArgs
    /\ files = NoFiles
    /\ _config = None
    /\ _unified_model = None
    /\ _loader_kwargs = EmptyDict
    /\ ret = NoRet
    /\ MergeIdle
    /\ PrecedenceIdle
    /\ ResolverIdle

RegistryGet(namespace) ==
    /\ ret' = [op |-> "get", res |-> get(_entries, namespace), namespace |-> namespace]
    /\ UNCHANGED <<settingsVars, mergeVars, srcs, resolverVars>>

AllEntries ==
    /\ ret' = [op |-> "all_entries", res |-> Ok(all_entries(_entries))]
    /\ UNCHANGED <<settingsVars, mergeVars, srcs, resolverVars>>

AllNamespaces ==
    /\ ret' = [op |-> "all_namespaces", res |-> Ok(all_namespaces(_entries))]
    /\ UNCHANGED <<settingsVars, mergeVars, srcs, resolverVars>>

Clear ==
    /\ _entries' = clear(_entries)._entries
    /\ ret' = [op |-> "clear", res |-> clear(_entries).ret]
    /\ UNCHANGED <<args, files, moduleVars, mergeVars, srcs, resolverVars>>

RegistryNext ==
    \/ \E entry \in RegistryEntries : Register(entry)
    \/ \E namespace \in RegistryNamespaces : RegistryGet(namespace)
    \/ AllEntries
    \/ AllNamespaces
    \/ Clear

SpecRegistry == RegistryInit /\ [][RegistryNext]_vars

----------------------------------------------------------------------------
(* Claims about the SchemaRegistry *)

(* the entries the registry holds for the namespace *)
EntriesFor(entries, namespace) ==
    {entries[i] : i \in {j \in 1..Len(entries) : entries[j].namespace = namespace}}

RegistryStep ==
    /\ (ret'.op = "register" /\ registered(_entries, ret'.entry.namespace)) =>
          /\ ret'.res.status = "raise"
          /\ ret'.res.exc.type = "SettingsRegistryError"
          /\ ret'.res.exc.namespace = ret'.entry.namespace
          /\ _entries' = _entries
    /\ (ret'.op = "register" /\ ~registered(_entries, ret'.entry.namespace)) =>
          /\ ret'.res.status = "ok"
          /\ EntriesFor(_entries', ret'.entry.namespace) = {ret'.entry}
    /\ (ret'.op = "get" /\ ~registered(_entries, ret'.namespace)) =>
          /\ ret'.res.status = "raise"
          /\ ret'.res.exc.type = "SettingsRegistryError"
          /\ ret'.res.exc.namespace = ret'.namespace
          /\ _entries' = _entries
    /\ (ret'.op = "get" /\ registered(_entries, ret'.namespace)) =>
          /\ ret'.res.status = "ok"
          /\ EntriesFor(_entries, ret'.namespace) = {ret'.res.val}
          /\ _entries' = _entries
    /\ ret'.op \in {"register", "get", "all_entries", "all_namespaces"} =>
          \A namespace \in RegistryNamespaces :
              registered(_entries, namespace) =>
                  EntriesFor(_entries', namespace) = EntriesFor(_entries, namespace)

\* C18: register(ns, ...) of a registered ns raises RegistryError and leaves
\* the registry as it was; get(ns) of an unregistered ns raises RegistryError
\* and adds nothing; no register, get, all_entries or all_namespaces call
\* changes the entry a registered namespace has, so get(ns) returns the entry
\* of the first successful registration of ns until clear().
C18_RegistryErrors == [][RegistryStep]_vars

(* a second registration of core with another model and file has just failed *)
C18_Witness ==
    /\ ret.op = "register"
    /\ ret.res.status = "raise"
    /\ ret.entry = SchemaEntry(K_core, "PipelineContainerConfig", OrchestratorDefaultsFile)
    /\ get(_entries, K_core) = Ok(CoreEntry)
    /\ Len(_entries) = 2

----------------------------------------------------------------------------
(* Claims about deep_merge on equal trees *)

\* C20: deep_merge(x, x) equals x for every raw tree x.
C20_MergeIdempotence ==
    (ret.op = "deep_merge" /\ base = override) => ret.val = base

(* x has a nested mapping and a list *)
C20_Witness ==
    /\ ret.op = "deep_merge"
    /\ base = override
    /\ Has(base, S("output"))
    /\ isinstance_dict(Get(base, S("output")))
    /\ Len(Get(base, S("output")).v) = 2
    /\ Has(base, S("formats"))
    /\ Get(base, S("formats")).t = "list"
    /\ ret.val = base

----------------------------------------------------------------------------
(* merger.py on objects: deep_merge as it reads and writes dict objects.
   A dict object is heap[address], a sequence of <<key, cell>>; the cell of a
   nested dict is a reference to its object, any other cell is the value. *)

Ref(address) == [t |-> "ref", v |-> address]
is_ref(cell) == cell.t = "ref"

(* the tree an object holds, nested objects followed *)
RECURSIVE Deref(_, _)
Deref(h, address) ==
    [i \in 1..Len(h[address]) |->
        <<h[address][i][1],
          IF is_ref(h[address][i][2])
          THEN Dict(Deref(h, h[address][i][2].v)) ELSE h[address][i][2]>>]

(* the objects of a tree literal, nested dicts first: the heap and the address *)
RECURSIVE literal(_, _, _)
literal(h, items, cells) ==
    IF items = <<>> THEN [heap |-> Append(h, cells), address |-> Len(h) + 1]
    ELSE IF isinstance_dict(Head(items)[2])
    THEN Bind(literal(h, Head(items)[2].v, <<>>),
              LAMBDA sub : literal(sub.heap, Tail(items),
                                   Append(cells, <<Head(items)[1], Ref(sub.address)>>)))
    ELSE literal(h, Tail(items), Append(cells, Head(items)))

(* result[key] = cell *)
setitem(h, result, key, cell) == [h EXCEPT ![result] = put(h[result], key, cell)]

RECURSIVE deep_merge_objects(_, _, _)
RECURSIVE merge_object_items(_, _, _)

(* the loop over override.items(), writing into the object `result` *)
merge_object_items(h, result, items) ==
    IF items = <<>> THEN [heap |-> h, address |-> result]
    ELSE LET key == Head(items)[1]
             value == Head(items)[2]
         IN  IF Has(h[result], key) /\ is_ref(Get(h[result], key)) /\ is_ref(value)
             THEN Bind(deep_merge_objects(h, Get(h[result], key).v, value.v),
                       LAMBDA sub :
                           merge_object_items(setitem(sub.heap, result, key, Ref(sub.address)),
                                              result, Tail(items)))
             ELSE merge_object_items(setitem(h, result, key, value), result, Tail(items))

(* a merge that writes into base itself: result = base *)
deep_merge_in_place(h, b, o) == merge_object_items(h, b, h[o])

(* result = base.copy() is a new object with the cells of base *)
deep_merge_objects(h, b, o) == merge_object_items(Append(h, h[b]), Len(h) + 1, h[o])

MaxObjects == 8

(* base and override as two literals, as one object, or sharing the object
   of their "output" section *)
ObjectInits ==
    UNION { LET b == literal(<<>>, bo[1], <<>>)
                o == literal(b.heap, bo[2], <<>>)
            IN  { [heap |-> o.heap, base |-> Ref(b.address), override |-> Ref(o.address)],
                  [heap |-> b.heap, base |-> Ref(b.address), override |-> Ref(b.address)] }
                \cup
                (IF Has(bo[1], S("output")) /\ isinstance_dict(Get(bo[1], S("output")))
                      /\ Has(bo[2], S("output")) /\ isinstance_dict(Get(bo[2], S("output")))
                 THEN { [heap |-> setitem(o.heap, o.address, S("output"),
                                          Get(b.heap[b.address], S("output"))),
                         base |-> Ref(b.address), override |-> Ref(o.address)] }
                 ELSE {}) :
            bo \in RawTrees \X RawTrees }

ObjectsInit ==
    /\ \E i \in ObjectInits :
           heap = i.heap /\ base = i.base /\ override = i.override
    /\ ret = NoRet
    /\ PrecedenceIdle
    /\ ResolverIdle
    /\ SettingsIdle

(* result = deep_merge(base, override); base and override stay referenced *)
DeepMergeObjectsCall ==
    /\ Len(heap) + 3 <= MaxObjects
    /\ \E r \in {deep_merge_objects(heap, base.v, override.v)} :
           /\ heap' = r.heap
           /\ ret' = [op |-> "deep_merge_objects", res |-> Ref(r.address),
                      snapshot |-> [base |-> Deref(heap, base.v),
                                    override |-> Deref(heap, override.v)]]
    /\ UNCHANGED <<base, override, settingsVars, srcs, resolverVars>>

(* base = result: the next merge starts from the result of the last one *)
Rebind ==
    /\ ret.op = "deep_merge_objects"
    /\ base' = ret.res
    /\ ret' = NoRet
    /\ UNCHANGED <<override, heap, settingsVars, srcs, resolverVars>>

ObjectsNext == DeepMergeObjectsCall \/ Rebind

SpecObjects == ObjectsInit /\ [][ObjectsNext]_vars

----------------------------------------------------------------------------
(* Claims about deep_merge on objects *)

(* the objects agree with the trees: the result is deep_merge of the trees *)
ObjectsRefineTrees ==
    ret.op = "deep_merge_objects" =>
        Deref(heap, ret.res.v) = deep_merge(ret.snapshot.base, ret.snapshot.override)

\* C19: after deep_merge(base, override) the tree of base and the tree of
\* override, at every depth, equal the snapshots taken before the call.
C19_MergePurity ==
    ret.op = "deep_merge_objects" =>
        /\ Deref(heap, base.v) = ret.snapshot.base
        /\ Deref(heap, override.v) = ret.snapshot.override

(* both trees have the section "output" as a mapping, with different keys, so
   the merge recursed and wrote a merged section into the result *)
C19_Witness ==
    /\ ret.op = "deep_merge_objects"
    /\ Has(heap[base.v], S("output"))
    /\ Has(heap[override.v], S("output"))
    /\ is_ref(Get(heap[base.v], S("output")))
    /\ is_ref(Get(heap[override.v], S("output")))
    /\ Get(heap[ret.res.v], S("output")) # Get(heap[base.v], S("output"))
    /\ Deref(heap, Get(heap[ret.res.v], S("output")).v)
           # Deref(heap, Get(heap[base.v], S("output")).v)
    /\ Deref(heap, base.v) = ret.snapshot.base

----------------------------------------------------------------------------
(* Calls of the transforms on merged namespace data *)

TransformPieces ==
    << KV(S("Generation"), Dict(KV(K_default_backend, Str(<<"$HOME", "/bin">>)))),
       KV(K_formats, Lst(<<Str(<<"${HOME}">>), Str(<<"$NOSUCHVAR", "/x">>), Num(5)>>)),
       KV(S("$HOME"), Str(S("BACKEND"))),
       KV(S("TEMPLATES"), Lst(<<Dict(KV(S("BACKEND"), Str(S("$HOME")))),
                                Str(S("GENERATION"))>>)),
       KV(S("GENERATION"),
          Dict(KV(S("BACKEND"), Dict(KV(S("DIRECTORY"), Str(<<"$NOSUCHVAR">>)))))),
       KV(K_output, Dict(KV(K_formats, Lst(<<Str(<<"$HOME", "/json">>)>>)))) >>

RECURSIVE Concat(_)
Concat(seqs) == IF seqs = <<>> THEN <<>> ELSE Head(seqs) \o Concat(Tail(seqs))

(* every selection of the pieces, in their order *)
TransformTrees ==
    { Concat([i \in 1..Len(TransformPieces) |->
                 IF i \in chosen THEN TransformPieces[i] ELSE <<>>]) :
      chosen \in SUBSET (1..Len(TransformPieces)) }

TransformEnvs ==
    { <<>>, HomeEnv, <<<<S("HOME"), S("$NOSUCHVAR")>>, <<S("USER"), S("u")>>>> }

TransformsInit ==
    /\ args \in [data : TransformTrees]
    /\ environ \in TransformEnvs
    /\ project_settings = Missing
    /\ user_settings = Missing
    /\ package_settings = EmptyDict
    /\ warnings = <<>>
    /\ _entries = <<>>
    /\ files = NoFiles
    /\ _config = None
    /\ _unified_model = None
    /\ _loader_kwargs = EmptyDict
    /\ ret = NoRet
    /\ MergeIdle
    /\ PrecedenceIdle

ResolveEnvironmentVariablesCall ==
    /\ ret' = [op |-> "resolve_environment_variables",
               res |-> resolve_environment_variables(args.data, environ)]
    /\ UNCHANGED <<settingsVars, mergeVars, srcs, resolverVars>>

ConvertKeysToLowercaseCall ==
    /\ ret' = [op |-> "convert_keys_to_lowercase",
               res |-> convert_keys_to_lowercase(args.data)]
    /\ UNCHANGED <<settingsVars, mergeVars, srcs, resolverVars>>

BuildValidatedNamespaceCall ==
    /\ ret' = [op |-> "build_validated_namespace",
               res |-> build_validated_namespace(K_core, "PipelineCoreConfig",
                                                 args.data, environ)]
    /\ UNCHANGED <<settingsVars, mergeVars, srcs, resolverVars>>

TransformsNext ==
    \/ ResolveEnvironmentVariablesCall
    \/ ConvertKeysToLowercaseCall
    \/ BuildValidatedNamespaceCall

SpecTransforms == TransformsInit /\ [][TransformsNext]_vars

----------------------------------------------------------------------------
(* Claims about the transforms *)

(* the text with every reference to a defined variable replaced by its value *)
RECURSIVE ExpandedText(_)
ExpandedText(s) ==
    IF s = <<>> THEN <<>>
    ELSE (IF VarName(Head(s)) # <<>> /\ EnvHas(environ, VarName(Head(s)))
          THEN EnvGet(environ, VarName(Head(s)))
          ELSE <<Head(s)>>) \o ExpandedText(Tail(s))

(* `out` has the shape and keys of `in`, its strings expanded, the rest equal *)
RECURSIVE Expands(_, _)
Expands(in, out) ==
    /\ out.t = in.t
    /\ CASE in.t = "str" -> out.v = ExpandedText(in.v)
         [] in.t = "dict" ->
               /\ Len(out.v) = Len(in.v)
               /\ \A i \in 1..Len(in.v) :
                      /\ out.v[i][1] = in.v[i][1]
                      /\ Expands(in.v[i][2], out.v[i][2])
         [] in.t = "list" ->
               /\ Len(out.v) = Len(in.v)
               /\ \A i \in 1..Len(in.v) : Expands(in.v[i], out.v[i])
         [] OTHER -> out = in

\* C21: resolve_environment_variables returns a tree of the same shape and
\* keys whose strings, at any depth and inside lists, have the references to
\* defined variables replaced and those to undefined variables left as written,
\* non-strings and keys as they were; build_validated_namespace validates the
\* expanded tree with its keys lower-cased.
C21_EnvironmentExpansion ==
    /\ ret.op = "resolve_environment_variables" =>
          Expands(Dict(args.data), Dict(ret.res))
    /\ ret.op = "build_validated_namespace" =>
          \E expanded \in {resolve_environment_variables(args.data, environ)} :
              /\ Expands(Dict(args.data), Dict(expanded))
              /\ IF validate_model("PipelineCoreConfig",
                                   convert_keys_to_lowercase(expanded)).ok
                 THEN ret.res = Ok(validate_model("PipelineCoreConfig",
                                       convert_keys_to_lowercase(expanded)).val)
                 ELSE ret.res.status = "raise"

(* $HOME defined, $NOSUCHVAR not: a list with both, a key that looks like a
   reference, a string under a mixed-case section *)
C21_Witness ==
    /\ ret.op = "resolve_environment_variables"
    /\ environ = HomeEnv
    /\ args.data = Concat(TransformPieces)
    /\ Get(ret.res, K_formats)
           = Lst(<<Str(S("/home/u")), Str(<<"$NOSUCHVAR", "/x">>), Num(5)>>)
    /\ Has(ret.res, S("$HOME"))
    /\ Get(ret.res, S("Generation")).v = KV(K_default_backend, Str(<<"/home/u", "/bin">>))

(* every key of every mapping, also of mappings inside lists, is lower-case *)
RECURSIVE KeysLowercase(_)
KeysLowercase(value) ==
    CASE value.t = "dict" ->
            \A i \in 1..Len(value.v) :
                lower(value.v[i][1]) = value.v[i][1] /\ KeysLowercase(value.v[i][2])
      [] value.t = "list" -> \A i \in 1..Len(value.v) : KeysLowercase(value.v[i])
      [] OTHER -> TRUE

(* the values that are no mappings, by the lower-cased path that leads to them *)
RECURSIVE NonMappingValues(_, _)
NonMappingValues(value, path) ==
    CASE value.t = "dict" ->
            UNION { NonMappingValues(value.v[i][2], Append(path, lower(value.v[i][1]))) :
                    i \in 1..Len(value.v) }
      [] value.t = "list" ->
            UNION { NonMappingValues(value.v[i], Append(path, <<i>>)) :
                    i \in 1..Len(value.v) }
      [] OTHER -> {<<path, value>>}

\* C22: convert_keys_to_lowercase returns a tree whose mapping keys are
\* lower-case at every depth, those of mappings inside lists included, and
\* whose values that are no mappings are the input's.
C22_KeyCaseNormalization ==
    ret.op = "convert_keys_to_lowercase" =>
        /\ KeysLowercase(Dict(ret.res))
        /\ NonMappingValues(Dict(ret.res), <<>>)
               \subseteq NonMappingValues(Dict(args.data), <<>>)

----------------------------------------------------------------------------
(* Claims about the environment source of the resolver *)

(* the lower-cased segments of COLORSCHEME_<S1>__...__<K> *)
EnvPath(name) ==
    [i \in 1..Len(split(Tail(name), "__")) |-> lower(split(Tail(name), "__")[i])]

(* the value the path leads to through mappings, None when it leads nowhere *)
RECURSIVE ValueAt(_, _)
ValueAt(tree, path) ==
    IF path = <<>> THEN tree
    ELSE IF tree.t # "dict" \/ ~Has(tree.v, Head(path)) THEN None
    ELSE ValueAt(Get(tree.v, Head(path)), Tail(path))

(* the paths of the leaves of a tree *)
RECURSIVE LeafPaths(_, _)
LeafPaths(tree, path) ==
    IF tree.t # "dict" THEN {path}
    ELSE UNION { LeafPaths(tree.v[i][2], Append(path, tree.v[i][1])) : i \in 1..Len(tree.v) }

Prefixed(env) == {i \in 1..Len(env) : env[i][1][1] = EnvPrefix}

EnvMapping(env, env_vars) ==
    /\ env_vars # TypeError
    /\ \A i \in Prefixed(env) : ValueAt(env_vars, EnvPath(env[i][1])) = Str(env[i][2])
    /\ EnvHas(env, LegacyTemplatesVar) =>
          ValueAt(env_vars, <<S("templates"), S("directory")>>)
              = Str(EnvGet(env, LegacyTemplatesVar))
    /\ LeafPaths(env_vars, <<>>)
          \subseteq {EnvPath(env[i][1]) : i \in Prefixed(env)}
                    \cup {<<S("templates"), S("directory")>>}

\* C23: in every resolve(), each variable COLORSCHEME_<S1>__...__<K> of the
\* environment has its value at the lower-cased path s1.....k of the env
\* source, COLOR_SCHEME_TEMPLATES, when set, gives templates.directory, and
\* the env source has no leaf that comes from another variable.
C23_EnvironmentMapping ==
    ret.op = "resolve" => EnvMapping(environ, collect_env_vars(environ))

(* no variable is set at or beneath the path of another *)
ConflictFree(env) ==
    /\ ~(EnvHas(env, <<EnvPrefix, "GENERATION">>)
            /\ EnvHas(env, <<EnvPrefix, "GENERATION", "__", "SATURATION">>))
    /\ ~(EnvHas(env, <<EnvPrefix, "TEMPLATES">>) /\ EnvHas(env, LegacyTemplatesVar))

C23_ButForConflicts ==
    (ret.op = "resolve" /\ ConflictFree(environ)) => C23_EnvironmentMapping

----------------------------------------------------------------------------
(* Claims about resolve() under any environment *)

\* C28: resolve() returns a ResolvedConfig for every environment, in whatever
\* order its variables are enumerated, also when COLORSCHEME_X and
\* COLORSCHEME_X__Y are both set and when COLORSCHEME_TEMPLATES is set
\* together with COLOR_SCHEME_TEMPLATES.
C28_EnvironmentNeverFails ==
    ret.op = "resolve" => ret.status = "ok"

C28_ButForConflicts ==
    (ret.op = "resolve" /\ ConflictFree(environ)) => C28_EnvironmentNeverFails

----------------------------------------------------------------------------
(* Claims about reset() and the unconfigured system *)

ResetStep ==
    /\ ret'.op = "reset" =>
          /\ _entries' = <<>>
          /\ all_namespaces(_entries') = <<>>
          /\ \A entry \in {CoreEntry, OrchestratorEntry} :
                 register(_entries', entry.namespace, entry.model,
                          entry.defaults_file).ret.status = "ok"
          /\ _config' = None
          /\ _unified_model' = None
          /\ _loader_kwargs' = EmptyDict
    /\ (ret'.op = "load_config" /\ _unified_model = None) =>
          /\ ret'.res = Raise(SettingsError)
          /\ _config' = None
    /\ (_unified_model = None /\ _unified_model' # None) => ret'.op = "configure"

\* C24: reset() leaves the registry empty, so that every namespace can be
\* registered again, and drops the cached config and the unified model; from
\* then on, as before any configure(), load_config() raises SettingsError and
\* caches nothing, until configure() is called.
C24_Reset == [][ResetStep]_vars

(* reset() has just dropped a cached config and two registered namespaces *)
C24_Witness ==
    /\ ret.op = "reset"
    /\ ret.was._config # None
    /\ Len(ret.was._entries) = 2
    /\ _entries = <<>>
    /\ _config = None
    /\ _unified_model = None

----------------------------------------------------------------------------
(* Claims about get_config(overrides) and the cache *)

GetConfigStep ==
    /\ ret'.op = "get_config" =>
          /\ _config # None => _config' = _config
          /\ _config = None =>
                \/ _config' = None /\ ret'.res.status = "raise"
                \/ /\ Rebuilt.status = "ok"
                   /\ _config' # None
                   /\ _config'.val = Rebuilt.val.val
          /\ (ret'.res.status = "ok"
                  /\ (ret'.overrides = None \/ ret'.overrides = Dict(EmptyDict))) =>
                ret'.res.val = _config'
    /\ (ret'.op = "load_config" /\ ret'.res.status = "ok") => ret'.res.val = _config'
    /\ (ret'.op = "load_config" /\ _config # None) => ret'.res.val = _config

\* C26: a get_config call, with whatever override map and whether it returns
\* or raises, leaves a cached config as it is and caches only the config built
\* from the file layers; load_config() and get_config() without overrides
\* return the cached config.
C26_OverridesNotCached == [][GetConfigStep]_vars

(* get_config has just returned an overridden config that is not the cached one *)
C26_Witness ==
    /\ ret.op = "get_config"
    /\ ret.res.status = "ok"
    /\ ret.overrides # None
    /\ ret.overrides # Dict(EmptyDict)
    /\ _config # None
    /\ ret.res.val.val # _config.val
    /\ ret.res.val.id # _config.id


----------------------------------------------------------------------------
(* Claims about ResolvedConfig.to_dict() *)

(* one stored key names a mapping on the way to another stored key *)
PrefixKeys(config) ==
    \E k1, k2 \in DOMAIN config :
        /\ Len(k1) < Len(k2)
        /\ SubSeq(k2, 1, Len(k1) + 1) = k1 \o <<Dot>>

RoundTrips(config, res) ==
    /\ res # TypeError
    /\ \A key \in DOMAIN config : walk(res, split(key, Dot)) = config[key].value
    /\ collect_keys(res.v, <<>>) = DOMAIN config

(* C25: to_dict() on every ResolvedConfig that resolve() returns gives,
   without an error, a nested mapping in which the segments of each stored
   dot-path key lead to exactly that key's resolved value and which has no
   other leaves. *)
C25_ToDictRoundTrip ==
    ret.op = "to_dict" => RoundTrips(ret.config, ret.res)

(* the same, for the configs in which no stored key is a dot-prefix of another *)
C25_ButForPrefixKeys ==
    (ret.op = "to_dict" /\ ~PrefixKeys(ret.config)) => RoundTrips(ret.config, ret.res)


----------------------------------------------------------------------------
(* Claims about one setting supplied by the environment and by a file *)

SaturationVar == <<EnvPrefix, "GENERATION", "__", "SATURATION">>

(* the values the well-formed project and user files give core.generation.saturation *)
FileValues ==
    { walk(Dict(file.data), split(K_core_generation_saturation, Dot)) :
        file \in { f \in {project_settings, user_settings} :
                     /\ f.state = "ok"
                     /\ walk(Dict(f.data), split(K_core_generation_saturation, Dot)) # None } }

(* resolve() returned with COLORSCHEME_GENERATION__SATURATION set, a file
   holding [core.generation] saturation, and no CLI argument for it *)
SuppliedByEnvAndFile ==
    /\ ret.op = "resolve"
    /\ ret.status = "ok"
    /\ ~Has(ret.cli_args, K_core_generation_saturation)
    /\ EnvHas(environ, SaturationVar)
    /\ FileValues # {}

Reported ==
    DOMAIN ret.val \cap {K_generation_saturation, K_core_generation_saturation}

(* C27: a setting supplied by COLORSCHEME_<SECTION>__<KEY> and by a
   [<namespace>.<section>] key of a user or project file is reported under a
   single dot-path key, with source ENV, the variable's value, and an
   overrides list that contains the file value. *)
C27_OneSettingOneKey ==
    SuppliedByEnvAndFile =>
        \E key \in Reported :
            /\ Reported = {key}
            /\ ret.val[key].source = "ENV"
            /\ ret.val[key].value = Str(EnvGet(environ, SaturationVar))
            /\ \E i \in DOMAIN ret.val[key].overrides :
                   ret.val[key].overrides[i][2] \in FileValues

(* what resolve() reports instead: the variable under generation.saturation
   with nothing overridden, the file under core.generation.saturation
   (when no other variable is set at or beneath the variable's path) *)
C27_TwoKeys ==
    (SuppliedByEnvAndFile /\ ConflictFree(environ)) =>
        /\ Reported = {K_generation_saturation, K_core_generation_saturation}
        /\ ret.val[K_generation_saturation].source = "ENV"
        /\ ret.val[K_generation_saturation].overrides = <<>>
        /\ ret.val[K_core_generation_saturation].source \in {"USER_CONFIG", "PROJECT_CONFIG"}
        /\ ret.val[K_core_generation_saturation].value \in FileValues


----------------------------------------------------------------------------
(* Claims about the warnings of one ConfigResolver instance *)

IsPrefix(s, t) == Len(s) <= Len(t) /\ SubSeq(t, 1, Len(s)) = s

MalformedCount(file) == IF file = Malformed THEN 1 ELSE 0

WarningsStep ==
    /\ IsPrefix(warnings, warnings')
    /\ ret'.op = "resolve" =>
          /\ warnings' = warnings \o ret'.added
          /\ Len(ret'.added) = MalformedCount(project_settings) + MalformedCount(user_settings)
          /\ Len(WarningsFor(ret'.added, ProjectPath)) = MalformedCount(project_settings)
          /\ Len(WarningsFor(ret'.added, UserPath)) = MalformedCount(user_settings)
          /\ ret'.status = "ok" =>
                ret'.val = resolve(PackageName, ret'.cli_args, environ, project_settings,
                                   user_settings, package_settings).val
    /\ ret'.op # "resolve" => warnings' = warnings

(* C29: the warnings list of a resolver is never cleared or shortened; a
   resolve() call appends exactly one warning for each malformed project or
   user file it meets (so k calls against one malformed file leave k
   warnings), and the config it returns is built from the sources as they are
   at the call, whatever the earlier calls returned or recorded. *)
C29_WarningsAccumulate == [][WarningsStep]_vars

(* two resolve() calls against the same malformed project file *)
C29_Witness ==
    /\ ret.op = "resolve"
    /\ project_settings = Malformed
    /\ user_settings = Missing
    /\ Len(warnings) = 2
    /\ Len(WarningsFor(warnings, ProjectPath)) = 2
    /\ Len(ret.added) = 1


----------------------------------------------------------------------------
(* Claims about a key replaced wholesale between two mappings *)

IsMappingAt(layer, key) ==
    /\ isinstance_dict(layer.data)
    /\ Has(layer.data.v, key)
    /\ isinstance_dict(Get(layer.data.v, key))

IsScalarOrListAt(layer, key) ==
    /\ isinstance_dict(layer.data)
    /\ Has(layer.data.v, key)
    /\ ~isinstance_dict(Get(layer.data.v, key))

(* the keys that three layers set to a mapping, a scalar or list, a mapping *)
StickyKeys(ls) ==
    IF Len(ls) # 3 THEN {}
    ELSE { key \in Keys(ls[1].data.v) :
             /\ IsMappingAt(ls[1], key)
             /\ IsScalarOrListAt(ls[2], key)
             /\ IsMappingAt(ls[3], key) }

(* C30: when the lowest of three layers of a namespace sets a key to a
   mapping, the middle one to a scalar or a list and the highest to a mapping,
   merge_layers gives that key exactly the highest layer's mapping: no
   sub-key of the lowest layer's mapping is in it unless the highest has it. *)
C30_StickyReplacement ==
    (ret.op = "merge_layers" /\ ret.res.status = "ok") =>
        \A ns \in Namespaces(ret.layers) :
            \A key \in StickyKeys(LayersOf(ret.layers, ns)) :
                /\ Has(Get(ret.res.val, ns).v, key)
                /\ Get(Get(ret.res.val, ns).v, key)
                     = Get(LayersOf(ret.layers, ns)[3].data.v, key)
                /\ Keys(Get(Get(ret.res.val, ns).v, key).v)
                     = Keys(Get(LayersOf(ret.layers, ns)[3].data.v, key).v)

(* generation is a mapping with saturation_adjustment, then a list, then a
   mapping with default_backend only *)
C30_Witness ==
    /\ ret.op = "merge_layers"
    /\ ret.res.status = "ok"
    /\ StickyKeys(LayersOf(ret.layers, K_core)) = {K_generation}
    /\ ret.layers[2].data.v = KV(K_generation, Lst(<<Str(S("json"))>>))
    /\ Has(Get(ret.layers[1].data.v, K_generation).v, K_saturation_adjustment)
    /\ ~Has(Get(ret.layers[3].data.v, K_generation).v, K_saturation_adjustment)
    /\ Get(Get(ret.res.val, K_core).v, K_generation) = Get(ret.layers[3].data.v, K_generation)

====
